---- MODULE Spec2Model ----
(***************************************************************************)
(* The allocation ledger of satheeshds/accounting: the relational store    *)
(* (accounts, transactions, bills, invoices, payouts, transaction_documents)*)
(* and the HTTP handlers that read and write it.  One action per handler;  *)
(* the last completed exchange (operation, path id, status code, message,  *)
(* payload) is kept in `last`.                                             *)
(***************************************************************************)
EXTENDS Integers, FiniteSets, Sequences, TLC

(* ------------------------------ bounds --------------------------------- *)
MaxAmount == 2
MaxAccounts == 1
MaxTxns == 1
MaxBills == 1
MaxInvoices == 1
MaxPayouts == 1
MaxLinks == 2

VARIABLES
    schema,        \* which of the two migration sets built the store
    accounts,      \* id -> [name, type, opening_balance]
    contacts,      \* id -> [name, type]
    transactions,  \* id -> [account_id, type, amount, reference, transfer_account_id]
    bills,         \* id -> [amount, status, contact_id], contact_id 0 for NULL
    invoices,      \* id -> [amount, status, contact_id]
    payouts,       \* id -> [outlet_name, platform, final_payout_amt]
    links,         \* transaction_documents: id -> [transaction_id, document_type, document_id, amount]
    seq,           \* table name -> last id handed out
    last,          \* the last completed exchange
    proc           \* the in-flight link requests of the interleaved specification

store == <<accounts, contacts, transactions, bills, invoices, payouts, links, seq>>
vars == <<schema, accounts, contacts, transactions, bills, invoices, payouts, links, seq, last, proc>>

NULL == "<nil>"
Tables == {"accounts", "contacts", "transactions", "bills", "invoices", "payouts", "transaction_documents"}
NoData == [none |-> TRUE]

(* ----------------------------- the store ------------------------------- *)
Put(table, id, row) ==
    [i \in DOMAIN table \cup {id} |-> IF i = id THEN row ELSE table[i]]

\* a faulty variant of Remove: a DELETE with no WHERE clause
RemoveEveryRow(table, ids) == [i \in {} |-> table[i]]

Remove(table, ids) ==
    [i \in DOMAIN table \ ids |-> table[i]]

RECURSIVE SumAmount(_, _)
SumAmount(L, ids) ==
    IF ids = {} THEN 0
    ELSE LET i == CHOOSE x \in ids : TRUE
         IN L[i].amount + SumAmount(L, ids \ {i})

\* SELECT COALESCE(SUM(amount), 0) FROM transaction_documents WHERE transaction_id = ?
TxnAllocated(L, txnID) ==
    SumAmount(L, {l \in DOMAIN L : L[l].transaction_id = txnID})

\* SELECT COALESCE(SUM(amount), 0) FROM transaction_documents
\*   WHERE document_type = ? AND document_id = ?
DocAllocated(L, docType, docID) ==
    SumAmount(L, {l \in DOMAIN L : L[l].document_type = docType /\ L[l].document_id = docID})

(* ---------------------------- the read model --------------------------- *)
\* a faulty variant of getAccountByID: the income rows are left out of the balance
getAccountByIDWithoutIncome(A, T, id) ==
    LET expense == {t \in DOMAIN T : T[t].account_id = id /\ T[t].type = "expense"}
    IN [id |-> id, name |-> A[id].name, type |-> A[id].type,
        opening_balance |-> A[id].opening_balance,
        balance |-> A[id].opening_balance - SumAmount(T, expense)]

\* accountSelectQuery and scanAccount: balance is opening_balance plus the income
\* rows of the account minus its expense rows
getAccountByID(A, T, id) ==
    LET income == {t \in DOMAIN T : T[t].account_id = id /\ T[t].type = "income"}
        expense == {t \in DOMAIN T : T[t].account_id = id /\ T[t].type = "expense"}
    IN [id |-> id, name |-> A[id].name, type |-> A[id].type,
        opening_balance |-> A[id].opening_balance,
        balance |-> A[id].opening_balance + SumAmount(T, income) - SumAmount(T, expense)]

\* a faulty variant of scanBill: the computed fields are left at their zero values
scanBillStored(B, L, id) ==
    [id |-> id, contact_id |-> B[id].contact_id, amount |-> B[id].amount,
        status |-> B[id].status,
     allocated |-> 0, unallocated |-> 0]

\* billSelectQuery and scanBill
scanBill(B, L, id) ==
    LET allocated == DocAllocated(L, "bill", id)
    IN [id |-> id, contact_id |-> B[id].contact_id, amount |-> B[id].amount,
        status |-> B[id].status,
        allocated |-> allocated, unallocated |-> B[id].amount - allocated]

getBillByID(B, L, id) == scanBill(B, L, id)

\* invoiceSelectQuery and scanInvoice
scanInvoice(I, L, id) ==
    LET allocated == DocAllocated(L, "invoice", id)
    IN [id |-> id, contact_id |-> I[id].contact_id, amount |-> I[id].amount,
        status |-> I[id].status,
        allocated |-> allocated, unallocated |-> I[id].amount - allocated]

getInvoiceByID(I, L, id) == scanInvoice(I, L, id)

\* payoutSelectQuery and scanPayout
scanPayout(P, L, id) ==
    LET allocated == DocAllocated(L, "payout", id)
    IN [id |-> id, outlet_name |-> P[id].outlet_name, platform |-> P[id].platform,
        final_payout_amt |-> P[id].final_payout_amt,
        allocated |-> allocated, unallocated |-> P[id].final_payout_amt - allocated]

getPayoutByID(P, L, id) == scanPayout(P, L, id)

\* txnSelectQuery and scanTransaction
scanTransaction(T, L, id) ==
    LET allocated == TxnAllocated(L, id)
    IN [id |-> id, account_id |-> T[id].account_id, type |-> T[id].type,
        amount |-> T[id].amount, reference |-> T[id].reference,
        transfer_account_id |-> T[id].transfer_account_id,
        allocated |-> allocated, unallocated |-> T[id].amount - allocated]

\* contactSelectQuery and scanContact: a vendor's totals are taken over its bills,
\* a customer's over its invoices
scanContact(C, B, I, L, id) ==
    LET docType == IF C[id].type = "vendor" THEN "bill" ELSE "invoice"
        docs == IF C[id].type = "vendor" THEN B
                ELSE IF C[id].type = "customer" THEN I
                ELSE <<>>
        mine == {d \in DOMAIN docs : docs[d].contact_id = id}
        total == SumAmount(docs, mine)
        allocated == SumAmount(L, {l \in DOMAIN L : /\ L[l].document_type = docType
                                                     /\ L[l].document_id \in mine})
    IN [id |-> id, name |-> C[id].name, type |-> C[id].type,
        total_amount |-> total, allocated_amount |-> allocated,
        balance |-> total - allocated]

\* SELECT id, name, type, email, phone, created_at, updated_at FROM contacts WHERE id = ?
\* scanned into a zero Contact: the computed fields keep their zero values
ContactColumns(C, id) ==
    [id |-> id, name |-> C[id].name, type |-> C[id].type,
     total_amount |-> 0, allocated_amount |-> 0, balance |-> 0]

\* foreign keys exist in the SQLite migration set only
ForeignKeys == schema = "sqlite"

Exchange(op, id, code, msg, data) ==
    [op |-> op, id |-> id, code |-> code, msg |-> msg, data |-> data]

\* a faulty variant of Fail: the error is written after the bill of the request's
\* id has been deleted
FailAfterWrite(op, id, code, msg, data) ==
    /\ last' = Exchange(op, id, code, msg, data)
    /\ bills' = Remove(bills, {id})
    /\ UNCHANGED <<accounts, contacts, transactions, invoices, payouts, links, seq>>

\* writeError before any write: the store is left alone
Fail(op, id, code, msg, data) ==
    /\ last' = Exchange(op, id, code, msg, data)
    /\ UNCHANGED store

(* --------------------------- input validation -------------------------- *)
AccountInputValidate(a) ==
    IF a.name = "" THEN "name is required"
    ELSE IF a.type \notin {"bank", "cash", "credit_card"}
         THEN "type must be one of: bank, cash, credit_card"
    ELSE ""

\* ContactInput.Validate
ContactInputValidate(c) ==
    IF c.name = "" THEN "name is required"
    ELSE IF c.type \notin {"vendor", "customer"}
         THEN "type must be one of: vendor, customer"
    ELSE ""

TransactionInputValidate(t) ==
    IF t.account_id <= 0 THEN "account_id is required"
    ELSE IF t.amount <= 0 THEN "amount must be positive"
    ELSE IF t.type \notin {"income", "expense", "transfer"}
         THEN "type must be one of: income, expense, transfer"
    ELSE IF t.type = "transfer" /\ t.transfer_account_id <= 0
         THEN "transfer_account_id is required for transfers"
    ELSE IF t.type = "transfer" /\ t.transfer_account_id = t.account_id
         THEN "transfer_account_id must differ from account_id"
    ELSE ""

BillStatuses == {"draft", "partial", "received", "paid", "overdue", "cancelled"}
InvoiceStatuses == {"draft", "partial", "sent", "paid", "received", "overdue", "cancelled"}

BillInputValidate(b) ==
    IF b.amount < 0 THEN "amount must be non-negative"
    ELSE IF b.status \notin BillStatuses \cup {""}
         THEN "status must be one of: draft, partial, received, paid, overdue, cancelled"
    ELSE ""

InvoiceInputValidate(i) ==
    IF i.amount < 0 THEN "amount must be non-negative"
    ELSE IF i.status \notin InvoiceStatuses \cup {""}
         THEN "status must be one of: draft, partial, sent, paid, received, overdue, cancelled"
    ELSE ""

\* Validate's last step on a bill or invoice input: the empty status becomes draft
DefaultStatus(status) == IF status = "" THEN "draft" ELSE status

\* strings.ToLower on the platform names the inputs draw from
ToLower(s) ==
    CASE s = "Swiggy" -> "swiggy"
      [] s = "SWIGGY" -> "swiggy"
      [] s = "Zomato" -> "zomato"
      [] s = "ZOMATO" -> "zomato"
      [] OTHER -> s

PayoutInputValidate(p) ==
    IF p.outlet_name = "" THEN "outlet_name is required"
    ELSE IF ToLower(p.platform) \notin {"swiggy", "zomato"}
         THEN "platform must be swiggy or zomato"
    ELSE ""

\* the document types the link input's validator lets through
ValidatedDocumentTypes == {"bill", "invoice"}

\* a faulty variant of the validator: the amount is not looked at
ValidateWithoutAmount(td) ==
    IF td.document_type \notin ValidatedDocumentTypes
         THEN "document_type must be one of: bill, invoice"
    ELSE IF td.document_id <= 0 THEN "document_id is required"
    ELSE ""

\* a faulty variant of the validator: the amount is looked at first
ValidateAmountFirst(td) ==
    IF td.amount <= 0 THEN "amount must be positive"
    ELSE IF td.document_type \notin ValidatedDocumentTypes
         THEN "document_type must be one of: bill, invoice"
    ELSE IF td.document_id <= 0 THEN "document_id is required"
    ELSE ""

\* TransactionDocumentInput.Validate
TransactionDocumentInputValidate(td) ==
    IF td.document_type \notin ValidatedDocumentTypes
         THEN "document_type must be one of: bill, invoice"
    ELSE IF td.document_id <= 0 THEN "document_id is required"
    ELSE IF td.amount <= 0 THEN "amount must be positive"
    ELSE ""

\* CHECK(platform IN (...)) of the payouts table, per migration set
PlatformCheck(platform) ==
    IF schema = "sqlite" THEN platform \in {"Swiggy", "Zomato"}
    ELSE platform \in {"swiggy", "zomato"}

(* ------------------------------ accounts ------------------------------- *)
CreateAccount(input) ==
    LET msg == AccountInputValidate(input)
        id == seq["accounts"] + 1
    IN IF msg # "" THEN Fail("CreateAccount", 0, 400, msg, NoData)
       ELSE /\ accounts' = Put(accounts, id, input)
            /\ seq' = [seq EXCEPT !["accounts"] = id]
            /\ last' = Exchange("CreateAccount", 0, 201, "",
                               getAccountByID(accounts', transactions, id))
            /\ UNCHANGED <<contacts, transactions, bills, invoices, payouts, links>>

UpdateAccount(id, input) ==
    LET msg == AccountInputValidate(input)
    IN IF msg # "" THEN Fail("UpdateAccount", id, 400, msg, NoData)
       ELSE IF id \notin DOMAIN accounts
            THEN Fail("UpdateAccount", id, 404, "account not found", NoData)
       ELSE /\ accounts' = [accounts EXCEPT ![id] = input]
            /\ last' = Exchange("UpdateAccount", id, 200, "",
                               getAccountByID(accounts', transactions, id))
            /\ UNCHANGED <<contacts, transactions, bills, invoices, payouts, links, seq>>

\* FOREIGN KEY (account_id / transfer_account_id) REFERENCES accounts(id) ON DELETE RESTRICT
AccountReferenced(id) ==
    \E t \in DOMAIN transactions :
        transactions[t].account_id = id \/ transactions[t].transfer_account_id = id

DeleteAccount(id) ==
    IF id \notin DOMAIN accounts
    THEN Fail("DeleteAccount", id, 404, "account not found", NoData)
    ELSE IF ForeignKeys /\ AccountReferenced(id)
    THEN Fail("DeleteAccount", id, 500, "FOREIGN KEY constraint failed", NoData)
    ELSE /\ accounts' = Remove(accounts, {id})
         /\ last' = Exchange("DeleteAccount", id, 200, "deleted", NoData)
         /\ UNCHANGED <<contacts, transactions, bills, invoices, payouts, links, seq>>

(* ------------------------------ contacts ------------------------------- *)
CreateContact(input) ==
    LET msg == ContactInputValidate(input)
        id == seq["contacts"] + 1
    IN IF msg # "" THEN Fail("CreateContact", 0, 400, msg, NoData)
       ELSE /\ contacts' = Put(contacts, id, input)
            /\ seq' = [seq EXCEPT !["contacts"] = id]
            /\ last' = Exchange("CreateContact", 0, 201, "", ContactColumns(contacts', id))
            /\ UNCHANGED <<accounts, transactions, bills, invoices, payouts, links>>

UpdateContact(id, input) ==
    LET msg == ContactInputValidate(input)
    IN IF msg # "" THEN Fail("UpdateContact", id, 400, msg, NoData)
       ELSE IF id \notin DOMAIN contacts
            THEN Fail("UpdateContact", id, 404, "contact not found", NoData)
       ELSE /\ contacts' = [contacts EXCEPT ![id] = input]
            /\ last' = Exchange("UpdateContact", id, 200, "", ContactColumns(contacts', id))
            /\ UNCHANGED <<accounts, transactions, bills, invoices, payouts, links, seq>>

\* contact_id INTEGER REFERENCES contacts(id) ON DELETE SET NULL, in the migration
\* set that declares foreign keys
ClearContact(table, id) ==
    [i \in DOMAIN table |->
        IF ForeignKeys /\ table[i].contact_id = id
        THEN [table[i] EXCEPT !.contact_id = 0]
        ELSE table[i]]

\* the contact_id column of transactions is not part of the rows kept here
DeleteContact(id) ==
    IF id \notin DOMAIN contacts
    THEN Fail("DeleteContact", id, 404, "contact not found", NoData)
    ELSE /\ contacts' = Remove(contacts, {id})
         /\ bills' = ClearContact(bills, id)
         /\ invoices' = ClearContact(invoices, id)
         /\ last' = Exchange("DeleteContact", id, 200, "deleted", NoData)
         /\ UNCHANGED <<accounts, transactions, payouts, links, seq>>

\* the foreign key of a bill's or an invoice's contact_id
ContactForeignKeyHolds(row) ==
    ForeignKeys => (row.contact_id = 0 \/ row.contact_id \in DOMAIN contacts)

(* ------------------------- bills and invoices -------------------------- *)
CreateBill(input) ==
    LET msg == BillInputValidate(input)
        id == seq["bills"] + 1
        row == [amount |-> input.amount, status |-> DefaultStatus(input.status),
                contact_id |-> input.contact_id]
    IN IF msg # "" THEN Fail("CreateBill", 0, 400, msg, NoData)
       ELSE IF ~ContactForeignKeyHolds(row)
            THEN Fail("CreateBill", 0, 500, "FOREIGN KEY constraint failed", NoData)
       ELSE /\ bills' = Put(bills, id, row)
            /\ seq' = [seq EXCEPT !["bills"] = id]
            /\ last' = Exchange("CreateBill", 0, 201, "", getBillByID(bills', links, id))
            /\ UNCHANGED <<accounts, contacts, transactions, invoices, payouts, links>>

UpdateBill(id, input) ==
    LET msg == BillInputValidate(input)
        row == [amount |-> input.amount, status |-> DefaultStatus(input.status),
                contact_id |-> input.contact_id]
    IN IF msg # "" THEN Fail("UpdateBill", id, 400, msg, NoData)
       ELSE IF id \notin DOMAIN bills
            THEN Fail("UpdateBill", id, 404, "bill not found", NoData)
       ELSE IF ~ContactForeignKeyHolds(row)
            THEN Fail("UpdateBill", id, 500, "FOREIGN KEY constraint failed", NoData)
       ELSE /\ bills' = [bills EXCEPT ![id] = row]
            /\ last' = Exchange("UpdateBill", id, 200, "", getBillByID(bills', links, id))
            /\ UNCHANGED <<accounts, contacts, transactions, invoices, payouts, links, seq>>

DeleteBill(id) ==
    IF id \notin DOMAIN bills
    THEN Fail("DeleteBill", id, 404, "bill not found", NoData)
    ELSE /\ bills' = Remove(bills, {id})
         /\ last' = Exchange("DeleteBill", id, 200, "deleted", NoData)
         /\ UNCHANGED <<accounts, contacts, transactions, invoices, payouts, links, seq>>

CreateInvoice(input) ==
    LET msg == InvoiceInputValidate(input)
        id == seq["invoices"] + 1
        row == [amount |-> input.amount, status |-> DefaultStatus(input.status),
                contact_id |-> input.contact_id]
    IN IF msg # "" THEN Fail("CreateInvoice", 0, 400, msg, NoData)
       ELSE IF ~ContactForeignKeyHolds(row)
            THEN Fail("CreateInvoice", 0, 500, "FOREIGN KEY constraint failed", NoData)
       ELSE /\ invoices' = Put(invoices, id, row)
            /\ seq' = [seq EXCEPT !["invoices"] = id]
            /\ last' = Exchange("CreateInvoice", 0, 201, "", getInvoiceByID(invoices', links, id))
            /\ UNCHANGED <<accounts, contacts, transactions, bills, payouts, links>>

UpdateInvoice(id, input) ==
    LET msg == InvoiceInputValidate(input)
        row == [amount |-> input.amount, status |-> DefaultStatus(input.status),
                contact_id |-> input.contact_id]
    IN IF msg # "" THEN Fail("UpdateInvoice", id, 400, msg, NoData)
       ELSE IF id \notin DOMAIN invoices
            THEN Fail("UpdateInvoice", id, 404, "invoice not found", NoData)
       ELSE IF ~ContactForeignKeyHolds(row)
            THEN Fail("UpdateInvoice", id, 500, "FOREIGN KEY constraint failed", NoData)
       ELSE /\ invoices' = [invoices EXCEPT ![id] = row]
            /\ last' = Exchange("UpdateInvoice", id, 200, "", getInvoiceByID(invoices', links, id))
            /\ UNCHANGED <<accounts, contacts, transactions, bills, payouts, links, seq>>

DeleteInvoice(id) ==
    IF id \notin DOMAIN invoices
    THEN Fail("DeleteInvoice", id, 404, "invoice not found", NoData)
    ELSE /\ invoices' = Remove(invoices, {id})
         /\ last' = Exchange("DeleteInvoice", id, 200, "deleted", NoData)
         /\ UNCHANGED <<accounts, contacts, transactions, bills, payouts, links, seq>>

(* ------------------------------- payouts ------------------------------- *)
\* CreatePayout stores input.Platform as received
CreatePayout(input) ==
    LET msg == PayoutInputValidate(input)
        id == seq["payouts"] + 1
    IN IF msg # "" THEN Fail("CreatePayout", 0, 400, msg, NoData)
       ELSE IF ~PlatformCheck(input.platform)
            THEN Fail("CreatePayout", 0, 500, "CHECK constraint failed", NoData)
       ELSE /\ payouts' = Put(payouts, id, input)
            /\ seq' = [seq EXCEPT !["payouts"] = id]
            /\ last' = Exchange("CreatePayout", 0, 201, "", getPayoutByID(payouts', links, id))
            /\ UNCHANGED <<accounts, contacts, transactions, bills, invoices, links>>

\* UpdatePayout lowercases the platform before the UPDATE
UpdatePayout(id, input) ==
    LET msg == PayoutInputValidate(input)
        row == [input EXCEPT !.platform = ToLower(input.platform)]
    IN IF msg # "" THEN Fail("UpdatePayout", id, 400, msg, NoData)
       ELSE IF id \notin DOMAIN payouts
            THEN Fail("UpdatePayout", id, 404, "payout not found", NoData)
       ELSE IF ~PlatformCheck(row.platform)
            THEN Fail("UpdatePayout", id, 500, "CHECK constraint failed", NoData)
       ELSE /\ payouts' = [payouts EXCEPT ![id] = row]
            /\ last' = Exchange("UpdatePayout", id, 200, "", getPayoutByID(payouts', links, id))
            /\ UNCHANGED <<accounts, contacts, transactions, bills, invoices, links, seq>>

DeletePayout(id) ==
    IF id \notin DOMAIN payouts
    THEN Fail("DeletePayout", id, 404, "payout not found", NoData)
    ELSE /\ payouts' = Remove(payouts, {id})
         /\ last' = Exchange("DeletePayout", id, 200, "deleted", NoData)
         /\ UNCHANGED <<accounts, contacts, transactions, bills, invoices, links, seq>>

(* ----------------------------- transactions ---------------------------- *)
\* fmt.Sprintf("TRF-%d", id)
TransferReference(id) == "TRF-" \o ToString(id)

\* FOREIGN KEY (account_id), (transfer_account_id) REFERENCES accounts(id);
\* a NULL transfer_account_id (0 here) is not checked
TransactionForeignKeysHold(row) ==
    ForeignKeys =>
        /\ row.account_id \in DOMAIN accounts
        /\ row.transfer_account_id = 0 \/ row.transfer_account_id \in DOMAIN accounts

\* a faulty variant of PatchReference: the placeholder is never replaced
KeepReference(T, oldRef, newRef) == T

\* UPDATE transactions SET reference = newRef WHERE reference = oldRef
PatchReference(T, oldRef, newRef) ==
    [i \in DOMAIN T |-> IF T[i].reference = oldRef THEN [T[i] EXCEPT !.reference = newRef] ELSE T[i]]

\* the transfer branch: two inserts and the reference patch in one store transaction
CreateTransfer(input) ==
    LET ref == IF input.reference = NULL THEN TransferReference(0) ELSE input.reference
        id1 == seq["transactions"] + 1
        id2 == id1 + 1
        expense == [account_id |-> input.account_id, type |-> "expense", amount |-> input.amount,
                    reference |-> ref, transfer_account_id |-> input.transfer_account_id]
        income == [account_id |-> input.transfer_account_id, type |-> "income", amount |-> input.amount,
                   reference |-> ref, transfer_account_id |-> input.account_id]
        inserted == Put(Put(transactions, id1, expense), id2, income)
    IN IF ~TransactionForeignKeysHold(expense) \/ ~TransactionForeignKeysHold(income)
       THEN Fail("CreateTransaction", 0, 500, "FOREIGN KEY constraint failed", NoData)
       ELSE /\ transactions' = IF input.reference = NULL
                               THEN PatchReference(inserted, ref, TransferReference(id1))
                               ELSE inserted
            /\ seq' = [seq EXCEPT !["transactions"] = id2]
            /\ last' = Exchange("CreateTransaction", 0, 201, "",
                               scanTransaction(transactions', links, id1))
            /\ UNCHANGED <<accounts, contacts, bills, invoices, payouts, links>>

CreateTransaction(input) ==
    LET msg == TransactionInputValidate(input)
        id == seq["transactions"] + 1
    IN IF msg # "" THEN Fail("CreateTransaction", 0, 400, msg, NoData)
       ELSE IF input.type = "transfer" THEN CreateTransfer(input)
       ELSE IF ~TransactionForeignKeysHold(input)
            THEN Fail("CreateTransaction", 0, 500, "FOREIGN KEY constraint failed", NoData)
       ELSE /\ transactions' = Put(transactions, id, input)
            /\ seq' = [seq EXCEPT !["transactions"] = id]
            /\ last' = Exchange("CreateTransaction", 0, 201, "",
                               scanTransaction(transactions', links, id))
            /\ UNCHANGED <<accounts, contacts, bills, invoices, payouts, links>>

UpdateTransaction(id, input) ==
    LET msg == TransactionInputValidate(input)
    IN IF msg # "" THEN Fail("UpdateTransaction", id, 400, msg, NoData)
       ELSE IF id \notin DOMAIN transactions
            THEN Fail("UpdateTransaction", id, 404, "transaction not found", NoData)
       ELSE IF ~TransactionForeignKeysHold(input)
            THEN Fail("UpdateTransaction", id, 500, "FOREIGN KEY constraint failed", NoData)
       ELSE /\ transactions' = [transactions EXCEPT ![id] = input]
            /\ last' = Exchange("UpdateTransaction", id, 200, "",
                               scanTransaction(transactions', links, id))
            /\ UNCHANGED <<accounts, contacts, bills, invoices, payouts, links, seq>>

\* FOREIGN KEY (transaction_id) REFERENCES transactions(id) ON DELETE CASCADE,
\* in the migration set that declares foreign keys
CascadeLinks(L, txnID) ==
    IF ForeignKeys THEN Remove(L, {l \in DOMAIN L : L[l].transaction_id = txnID}) ELSE L

DeleteTransaction(id) ==
    IF id \notin DOMAIN transactions
    THEN Fail("DeleteTransaction", id, 404, "transaction not found", NoData)
    ELSE /\ transactions' = Remove(transactions, {id})
         /\ links' = CascadeLinks(links, id)
         /\ last' = Exchange("DeleteTransaction", id, 200, "deleted", NoData)
         /\ UNCHANGED <<accounts, contacts, bills, invoices, payouts, seq>>

(* ------------------------ status reconciliation ------------------------ *)
\* a faulty variant of NewStatus: an exactly settled document stays partial
NewStatusOffByOne(total, allocated, fullStatus) ==
    IF total <= 0 THEN "draft"
    ELSE IF allocated <= 0 THEN "draft"
    ELSE IF allocated <= total THEN "partial"
    ELSE fullStatus

\* the if/else chain of updateDocumentStatus
NewStatus(total, allocated, fullStatus) ==
    IF total <= 0 THEN "draft"
    ELSE IF allocated <= 0 THEN "draft"
    ELSE IF allocated < total THEN "partial"
    ELSE fullStatus

\* a faulty variant of Reconciled: a cancelled document keeps its status
ReconciledUnlessCancelled(table, L, docType, docID, fullStatus) ==
    IF docID \notin DOMAIN table \/ table[docID].status = "cancelled" THEN table
    ELSE [table EXCEPT ![docID].status =
            NewStatus(table[docID].amount, DocAllocated(L, docType, docID), fullStatus)]

\* SELECT amount, (SELECT SUM ...) FROM table WHERE id = ?; on no row, return;
\* UPDATE table SET status = ? WHERE id = ?
Reconciled(table, L, docType, docID, fullStatus) ==
    IF docID \notin DOMAIN table THEN table
    ELSE [table EXCEPT ![docID].status =
            NewStatus(table[docID].amount, DocAllocated(L, docType, docID), fullStatus)]

\* a faulty variant of updateDocumentStatus: the bill and the invoice of the id are
\* both reconciled
BillAndInvoiceReconciled(docType, docID, L) ==
    IF docType \in {"bill", "invoice"}
    THEN /\ bills' = Reconciled(bills, L, "bill", docID, "paid")
         /\ invoices' = Reconciled(invoices, L, "invoice", docID, "received")
    ELSE UNCHANGED <<bills, invoices>>

\* a faulty variant of updateDocumentStatus: a payout is reconciled as the bill of its id
PayoutReconciledAsBill(docType, docID, L) ==
    CASE docType \in {"bill", "payout"} ->
            /\ bills' = Reconciled(bills, L, "bill", docID, "paid")
            /\ UNCHANGED invoices
      [] docType = "invoice" ->
            /\ invoices' = Reconciled(invoices, L, "invoice", docID, "received")
            /\ UNCHANGED bills
      [] OTHER -> UNCHANGED <<bills, invoices>>

\* updateDocumentStatus, run against the link table L the caller has just written
updateDocumentStatus(docType, docID, L) ==
    CASE docType = "bill" ->
            /\ bills' = Reconciled(bills, L, "bill", docID, "paid")
            /\ UNCHANGED invoices
      [] docType = "invoice" ->
            /\ invoices' = Reconciled(invoices, L, "invoice", docID, "received")
            /\ UNCHANGED bills
      [] OTHER -> UNCHANGED <<bills, invoices>>

(* ------------------------------ the ledger ----------------------------- *)
TxnCapacityMsg == "transaction only has %d paise unallocated (requested %d)"
DocCapacityMsg == "%s only has %d paise unallocated (requested %d)"
DocNotFoundMsg == "%s not found"

\* the switch of CreateTransactionLink: the table and amount column per document type
DocumentTypes == {"bill", "invoice", "payout"}

DocTable(docType) ==
    CASE docType = "bill" -> bills
      [] docType = "invoice" -> invoices
      [] docType = "payout" -> payouts

DocAmount(docType, docID) ==
    IF docType = "payout" THEN payouts[docID].final_payout_amt
    ELSE DocTable(docType)[docID].amount

CapacityData(docType, unallocated, requested) ==
    [document_type |-> docType, unallocated |-> unallocated, requested |-> requested]

\* the row INSERT INTO transaction_documents writes
LinkRow(txnID, input) ==
    [transaction_id |-> txnID, document_type |-> input.document_type,
     document_id |-> input.document_id, amount |-> input.amount]

\* CreateTransactionLink up to the outcome of its INSERT: the exchange of the first
\* failed check, or the 201 exchange carrying the row inserted
LinkCheck(txnID, input) ==
    LET op == "CreateTransactionLink"
        msg == TransactionDocumentInputValidate(input)
        id == seq["transaction_documents"] + 1
    IN IF msg # "" THEN Exchange(op, txnID, 400, msg, NoData)
       ELSE IF txnID \notin DOMAIN transactions
            THEN Exchange(op, txnID, 404, "transaction not found", NoData)
       ELSE LET txnUnallocated == transactions[txnID].amount - TxnAllocated(links, txnID)
       IN IF input.amount > txnUnallocated
          THEN Exchange(op, txnID, 400, TxnCapacityMsg,
                        CapacityData("transaction", txnUnallocated, input.amount))
          ELSE IF input.document_type \notin DocumentTypes
               THEN Exchange(op, txnID, 400, "invalid document type", NoData)
          ELSE IF input.document_id \notin DOMAIN DocTable(input.document_type)
               THEN Exchange(op, txnID, 404, DocNotFoundMsg,
                             [document_type |-> input.document_type])
          ELSE LET docUnallocated ==
                       DocAmount(input.document_type, input.document_id)
                       - DocAllocated(links, input.document_type, input.document_id)
          IN IF input.amount > docUnallocated
             THEN Exchange(op, txnID, 400, DocCapacityMsg,
                           CapacityData(input.document_type, docUnallocated, input.amount))
             \* CHECK(amount > 0) of transaction_documents, met by the INSERT
             ELSE IF input.amount <= 0
                  THEN Exchange(op, txnID, 500, "CHECK constraint failed: amount > 0", NoData)
             ELSE Exchange(op, txnID, 201, "", [id |-> id] @@ LinkRow(txnID, input))

\* the insert, the status reconciliation and the response
CreateTransactionLink(txnID, input) ==
    LET checked == LinkCheck(txnID, input)
        id == seq["transaction_documents"] + 1
        inserted == Put(links, id, LinkRow(txnID, input))
    IN IF checked.code # 201
       THEN last' = checked /\ UNCHANGED store
       ELSE /\ links' = inserted
            /\ seq' = [seq EXCEPT !["transaction_documents"] = id]
            /\ updateDocumentStatus(input.document_type, input.document_id, inserted)
            /\ last' = checked
            /\ UNCHANGED <<accounts, contacts, transactions, payouts>>

\* faulty variants of the DELETE: WHERE transaction_id = ? alone, and WHERE id = ? alone
MatchedByTransaction(L, linkID, txnID) ==
    {l \in DOMAIN L : L[l].transaction_id = txnID}

MatchedById(L, linkID, txnID) ==
    {l \in DOMAIN L : l = linkID}

\* DELETE FROM transaction_documents WHERE id = ? AND transaction_id = ?
MatchedLinks(L, linkID, txnID) ==
    {l \in DOMAIN L : l = linkID /\ L[l].transaction_id = txnID}

DeleteTransactionLink(txnID, linkID) ==
    LET op == "DeleteTransactionLink"
        \* SELECT document_type, document_id FROM transaction_documents WHERE id = ?
        docType == IF linkID \in DOMAIN links THEN links[linkID].document_type ELSE ""
        docID == IF linkID \in DOMAIN links THEN links[linkID].document_id ELSE 0
        matched == MatchedLinks(links, linkID, txnID)
        remaining == Remove(links, matched)
    IN IF matched = {}
       THEN Fail(op, txnID, 404, "link not found", [link_id |-> linkID])
       ELSE /\ links' = remaining
            /\ IF docType # "" THEN updateDocumentStatus(docType, docID, remaining)
               ELSE UNCHANGED <<bills, invoices>>
            /\ last' = Exchange(op, txnID, 200, "deleted", [link_id |-> linkID])
            /\ UNCHANGED <<accounts, contacts, transactions, payouts, seq>>

(* -------------------------------- reads -------------------------------- *)
GetAccount(id) ==
    IF id \notin DOMAIN accounts
    THEN Fail("GetAccount", id, 404, "account not found", NoData)
    ELSE /\ last' = Exchange("GetAccount", id, 200, "", getAccountByID(accounts, transactions, id))
         /\ UNCHANGED store

GetContact(id) ==
    IF id \notin DOMAIN contacts
    THEN Fail("GetContact", id, 404, "contact not found", NoData)
    ELSE /\ last' = Exchange("GetContact", id, 200, "",
                             scanContact(contacts, bills, invoices, links, id))
         /\ UNCHANGED store

GetBill(id) ==
    IF id \notin DOMAIN bills
    THEN Fail("GetBill", id, 404, "bill not found", NoData)
    ELSE /\ last' = Exchange("GetBill", id, 200, "", getBillByID(bills, links, id))
         /\ UNCHANGED store

GetInvoice(id) ==
    IF id \notin DOMAIN invoices
    THEN Fail("GetInvoice", id, 404, "invoice not found", NoData)
    ELSE /\ last' = Exchange("GetInvoice", id, 200, "", getInvoiceByID(invoices, links, id))
         /\ UNCHANGED store

GetPayout(id) ==
    IF id \notin DOMAIN payouts
    THEN Fail("GetPayout", id, 404, "payout not found", NoData)
    ELSE /\ last' = Exchange("GetPayout", id, 200, "", getPayoutByID(payouts, links, id))
         /\ UNCHANGED store

GetTransaction(id) ==
    IF id \notin DOMAIN transactions
    THEN Fail("GetTransaction", id, 404, "transaction not found", NoData)
    ELSE /\ last' = Exchange("GetTransaction", id, 200, "",
                             scanTransaction(transactions, links, id))
         /\ UNCHANGED store

(* --------------------------- the requests ------------------------------ *)
Procs == {1, 2}
Idle == [pc |-> "idle"]

AccountInputs == [name : {"main"}, type : {"bank"}, opening_balance : {0}]
TransactionInputs ==
    [account_id : {1}, type : {"expense"}, amount : 0..MaxAmount,
     reference : {NULL}, transfer_account_id : {0}]
BillInputs == [amount : 0..MaxAmount, status : {""}, contact_id : {0}]
InvoiceInputs == [amount : 0..MaxAmount, status : {""}, contact_id : {0}]
PayoutInputs == [outlet_name : {"outlet"}, platform : {"Swiggy", "swiggy"}, final_payout_amt : {MaxAmount}]
LinkInputs ==
    [document_type : {"bill", "invoice", "payout", "receipt"},
     document_id : 0..1, amount : 0..(MaxAmount + 1)]

AccountIds == 1..MaxAccounts
TransactionIds == 1..(MaxTxns + 1)
BillIds == 1..MaxBills
InvoiceIds == 1..MaxInvoices
PayoutIds == 1..MaxPayouts
LinkIds == 1..MaxLinks

(* ------------------------- the specification --------------------------- *)
\* a freshly migrated store, under either migration set
Init ==
    /\ schema \in {"sqlite", "duckdb"}
    /\ accounts = <<>>
    /\ contacts = <<>>
    /\ transactions = <<>>
    /\ bills = <<>>
    /\ invoices = <<>>
    /\ payouts = <<>>
    /\ links = <<>>
    /\ seq = [t \in Tables |-> 0]
    /\ last = Exchange("Migrate", 0, 0, "", NoData)
    /\ proc = [p \in Procs |-> Idle]

\* one handler runs from request to response with nothing in between
Handle(request) == request /\ UNCHANGED <<schema, proc>>

Next ==
    \/ \E input \in AccountInputs :
           seq["accounts"] < MaxAccounts /\ Handle(CreateAccount(input))
    \/ \E id \in AccountIds, input \in AccountInputs : Handle(UpdateAccount(id, input))
    \/ \E id \in AccountIds : Handle(DeleteAccount(id))
    \/ \E input \in TransactionInputs :
           seq["transactions"] < MaxTxns /\ Handle(CreateTransaction(input))
    \/ \E id \in TransactionIds, input \in TransactionInputs :
           Handle(UpdateTransaction(id, input))
    \/ \E id \in TransactionIds : Handle(DeleteTransaction(id))
    \/ \E input \in BillInputs : seq["bills"] < MaxBills /\ Handle(CreateBill(input))
    \/ \E id \in BillIds, input \in BillInputs : Handle(UpdateBill(id, input))
    \/ \E id \in BillIds : Handle(DeleteBill(id))
    \/ \E input \in InvoiceInputs :
           seq["invoices"] < MaxInvoices /\ Handle(CreateInvoice(input))
    \/ \E id \in InvoiceIds, input \in InvoiceInputs : Handle(UpdateInvoice(id, input))
    \/ \E id \in InvoiceIds : Handle(DeleteInvoice(id))
    \/ \E input \in PayoutInputs :
           seq["payouts"] < MaxPayouts /\ Handle(CreatePayout(input))
    \/ \E id \in PayoutIds, input \in PayoutInputs : Handle(UpdatePayout(id, input))
    \/ \E id \in PayoutIds : Handle(DeletePayout(id))
    \/ \E id \in TransactionIds, input \in LinkInputs :
           seq["transaction_documents"] < MaxLinks
           /\ Handle(CreateTransactionLink(id, input))
    \/ \E id \in TransactionIds, linkID \in LinkIds :
           Handle(DeleteTransactionLink(id, linkID))

Spec == Init /\ [][Next]_vars

(* ------------------ handlers as interleaved store calls ---------------- *)
(* CreateTransactionLink opens no store transaction: each DB.QueryRow and  *)
(* DB.Exec is a statement of its own, and another request's statements may *)
(* run between any two of them.  proc[p] holds request p's position and    *)
(* the handler's local variables.                                          *)
ConcTxns == 2

ConcLinkInputs == [document_type : {"bill"}, document_id : {1}, amount : 1..MaxAmount]

Finished(p, code, msg) ==
    proc' = [proc EXCEPT ![p] = [proc[p] EXCEPT !.pc = "done", !.code = code, !.msg = msg]]

\* input.Validate(), then SELECT amount FROM transactions WHERE id = ?
LinkReadTransaction(p, txnID, input) ==
    LET msg == TransactionDocumentInputValidate(input)
        call == [op |-> "CreateTransactionLink", pc |-> "sumTransaction", txnID |-> txnID,
                 input |-> input, txnAmount |-> 0, docAmount |-> 0, id |-> 0,
                 newStatus |-> "", failed |-> FALSE, code |-> 0, msg |-> ""]
    IN /\ proc[p].pc = "idle"
       /\ proc' = [proc EXCEPT ![p] =
             IF msg # "" THEN [call EXCEPT !.pc = "done", !.code = 400, !.msg = msg]
             ELSE IF txnID \notin DOMAIN transactions
             THEN [call EXCEPT !.pc = "done", !.code = 404, !.msg = "transaction not found"]
             ELSE [call EXCEPT !.txnAmount = transactions[txnID].amount]]
       /\ UNCHANGED <<schema, store, last>>

\* SELECT COALESCE(SUM(amount), 0) ... WHERE transaction_id = ?, and the first capacity check
LinkSumTransaction(p) ==
    LET c == proc[p]
        txnUnallocated == c.txnAmount - TxnAllocated(links, c.txnID)
    IN /\ c.pc = "sumTransaction"
       /\ IF c.input.amount > txnUnallocated
          THEN Finished(p, 400, TxnCapacityMsg)
          ELSE proc' = [proc EXCEPT ![p].pc = "readDocument"]
       /\ UNCHANGED <<schema, store, last>>

\* SELECT amount FROM <docTable> WHERE id = ?
LinkReadDocument(p) ==
    LET c == proc[p]
    IN /\ c.pc = "readDocument"
       /\ IF c.input.document_type \notin DocumentTypes
          THEN Finished(p, 400, "invalid document type")
          ELSE IF c.input.document_id \notin DOMAIN DocTable(c.input.document_type)
          THEN Finished(p, 404, DocNotFoundMsg)
          ELSE proc' = [proc EXCEPT ![p] =
                   [c EXCEPT !.pc = "sumDocument",
                             !.docAmount = DocAmount(c.input.document_type, c.input.document_id)]]
       /\ UNCHANGED <<schema, store, last>>

\* SELECT COALESCE(SUM(amount), 0) ... WHERE document_type = ? AND document_id = ?,
\* and the second capacity check
LinkSumDocument(p) ==
    LET c == proc[p]
        docUnallocated ==
            c.docAmount - DocAllocated(links, c.input.document_type, c.input.document_id)
    IN /\ c.pc = "sumDocument"
       /\ IF c.input.amount > docUnallocated
          THEN Finished(p, 400, DocCapacityMsg)
          ELSE proc' = [proc EXCEPT ![p].pc = "insert"]
       /\ UNCHANGED <<schema, store, last>>

\* INSERT INTO transaction_documents; under foreign keys the transaction must still exist
LinkInsert(p) ==
    LET c == proc[p]
        id == seq["transaction_documents"] + 1
    IN /\ c.pc = "insert"
       /\ IF ForeignKeys /\ c.txnID \notin DOMAIN transactions
          THEN /\ Finished(p, 500, "FOREIGN KEY constraint failed")
               /\ UNCHANGED <<links, seq>>
          ELSE /\ links' = Put(links, id, LinkRow(c.txnID, c.input))
               /\ seq' = [seq EXCEPT !["transaction_documents"] = id]
               /\ proc' = [proc EXCEPT ![p] = [c EXCEPT !.pc = "statusRead", !.id = id]]
       /\ UNCHANGED <<schema, accounts, contacts, transactions, bills, invoices, payouts, last>>

\* updateDocumentStatus: the SELECT of the amount and the allocated total, and the if/else chain
StatusRead(p) ==
    LET c == proc[p]
        docType == c.input.document_type
        docID == c.input.document_id
        fullStatus == IF docType = "bill" THEN "paid" ELSE "received"
    IN /\ c.pc = "statusRead"
       /\ proc' = [proc EXCEPT ![p] =
             IF docType \notin {"bill", "invoice"} \/ docID \notin DOMAIN DocTable(docType)
             THEN [c EXCEPT !.pc = "respond"]
             ELSE [c EXCEPT !.pc = "statusWrite",
                            !.newStatus = NewStatus(DocTable(docType)[docID].amount,
                                                     DocAllocated(links, docType, docID),
                                                     fullStatus)]]
       /\ UNCHANGED <<schema, store, last>>

\* SetStatus: UPDATE <table> SET status = ? WHERE id = ?
SetStatus(table, docID, status) ==
    IF docID \in DOMAIN table THEN [table EXCEPT ![docID].status = status] ELSE table

StatusWrite(p) ==
    LET c == proc[p]
    IN /\ c.pc = "statusWrite"
       /\ IF c.input.document_type = "bill"
          THEN bills' = SetStatus(bills, c.input.document_id, c.newStatus) /\ UNCHANGED invoices
          ELSE invoices' = SetStatus(invoices, c.input.document_id, c.newStatus) /\ UNCHANGED bills
       /\ proc' = [proc EXCEPT ![p].pc = "respond"]
       /\ UNCHANGED <<schema, accounts, contacts, transactions, payouts, links, seq, last>>

\* the re-read of the link row and writeJSON(201)
LinkRespond(p) ==
    /\ proc[p].pc = "respond"
    /\ proc[p].op = "CreateTransactionLink"
    /\ Finished(p, 201, "")
    /\ UNCHANGED <<schema, store, last>>

\* a store holding ConcTxns transactions and one unpaid bill, each of MaxAmount
InitConc ==
    /\ schema \in {"sqlite", "duckdb"}
    /\ accounts = [i \in {1} |-> [name |-> "main", type |-> "bank", opening_balance |-> 0]]
    /\ contacts = <<>>
    /\ transactions = [i \in 1..ConcTxns |->
            [account_id |-> 1, type |-> "expense", amount |-> MaxAmount,
             reference |-> NULL, transfer_account_id |-> 0]]
    /\ bills = [i \in {1} |-> [amount |-> MaxAmount, status |-> "draft", contact_id |-> 0]]
    /\ invoices = <<>>
    /\ payouts = <<>>
    /\ links = <<>>
    /\ seq = [t \in Tables |->
            CASE t = "accounts" -> 1 [] t = "transactions" -> ConcTxns [] t = "bills" -> 1 [] OTHER -> 0]
    /\ last = Exchange("Migrate", 0, 0, "", NoData)
    /\ proc = [p \in Procs |-> Idle]

NextConc ==
    \E p \in Procs :
        \/ \E txnID \in 1..ConcTxns, input \in ConcLinkInputs : LinkReadTransaction(p, txnID, input)
        \/ LinkSumTransaction(p)
        \/ LinkReadDocument(p)
        \/ LinkSumDocument(p)
        \/ LinkInsert(p)
        \/ StatusRead(p)
        \/ StatusWrite(p)
        \/ LinkRespond(p)

SpecConc == InitConc /\ [][NextConc]_vars

(* ------------- a link whose status reconciliation can fail ------------- *)
\* QueryRow(...).Scan of updateDocumentStatus returns an error: the function returns
\* and the handler goes on to its response
StatusReadFails(p) ==
    LET c == proc[p]
    IN /\ c.pc = "statusRead"
       /\ c.input.document_type \in {"bill", "invoice"}
       /\ proc' = [proc EXCEPT ![p] = [c EXCEPT !.pc = "respond", !.failed = TRUE]]
       /\ UNCHANGED <<schema, store, last>>

\* a faulty variant of StatusWriteFails: the failure takes the link row back and
\* is reported to the caller
StatusWriteFailsUndoingLink(p) ==
    LET c == proc[p]
    IN /\ c.pc = "statusWrite"
       /\ links' = Remove(links, {c.id})
       /\ proc' = [proc EXCEPT ![p] = [c EXCEPT !.pc = "done", !.failed = TRUE,
                                                !.code = 500, !.msg = "status update failed"]]
       /\ UNCHANGED <<schema, accounts, contacts, transactions, bills, invoices, payouts,
                      seq, last>>

\* the DB.Exec of the status UPDATE fails: its result and error are dropped
StatusWriteFails(p) ==
    LET c == proc[p]
    IN /\ c.pc = "statusWrite"
       /\ proc' = [proc EXCEPT ![p] = [c EXCEPT !.pc = "respond", !.failed = TRUE]]
       /\ UNCHANGED <<schema, store, last>>

NextFaults ==
    \E p \in Procs :
        \/ \E txnID \in 1..ConcTxns, input \in ConcLinkInputs : LinkReadTransaction(p, txnID, input)
        \/ LinkSumTransaction(p)
        \/ LinkReadDocument(p)
        \/ LinkSumDocument(p)
        \/ LinkInsert(p)
        \/ StatusRead(p)
        \/ StatusReadFails(p)
        \/ StatusWrite(p)
        \/ StatusWriteFails(p)
        \/ LinkRespond(p)

SpecFaults == InitConc /\ [][NextFaults]_vars

(* ----------------- Link and Unlink as interleaved store calls ---------- *)
\* SELECT document_type, document_id FROM transaction_documents WHERE id = ?, whose
\* error is dropped: a missing row leaves docType empty
UnlinkReadLink(p, txnID, linkID) ==
    LET found == linkID \in DOMAIN links
        doc == [document_type |-> IF found THEN links[linkID].document_type ELSE "",
                document_id |-> IF found THEN links[linkID].document_id ELSE 0,
                amount |-> 0]
    IN /\ proc[p].pc = "idle"
       /\ proc' = [proc EXCEPT ![p] =
             [op |-> "DeleteTransactionLink", pc |-> "delete", txnID |-> txnID,
              input |-> doc, txnAmount |-> 0, docAmount |-> 0, id |-> linkID,
              newStatus |-> "", failed |-> FALSE, code |-> 0, msg |-> ""]]
       /\ UNCHANGED <<schema, store, last>>

\* a faulty variant of UnlinkDelete: the count of deleted rows is not looked at
UnlinkDeleteUncounted(p) ==
    LET c == proc[p]
    IN /\ c.pc = "delete"
       /\ links' = Remove(links, MatchedLinks(links, c.id, c.txnID))
       /\ proc' = [proc EXCEPT ![p] =
             [c EXCEPT !.pc = IF c.input.document_type # "" THEN "statusRead" ELSE "respond"]]
       /\ UNCHANGED <<schema, accounts, contacts, transactions, bills, invoices, payouts,
                      seq, last>>

\* DELETE FROM transaction_documents WHERE id = ? AND transaction_id = ?, and the 404
\* when no row was affected
UnlinkDelete(p) ==
    LET c == proc[p]
        matched == MatchedLinks(links, c.id, c.txnID)
    IN /\ c.pc = "delete"
       /\ IF matched = {}
          THEN /\ Finished(p, 404, "link not found")
               /\ UNCHANGED links
          ELSE /\ links' = Remove(links, matched)
               /\ proc' = [proc EXCEPT ![p] =
                     [c EXCEPT !.pc = IF c.input.document_type # ""
                                      THEN "statusRead" ELSE "respond"]]
       /\ UNCHANGED <<schema, accounts, contacts, transactions, bills, invoices, payouts,
                      seq, last>>

\* writeJSON(200, deleted)
UnlinkRespond(p) ==
    /\ proc[p].pc = "respond"
    /\ proc[p].op = "DeleteTransactionLink"
    /\ Finished(p, 200, "deleted")
    /\ UNCHANGED <<schema, store, last>>

\* a store holding ConcTxns transactions of MaxAmount and one bill of MaxAmount that
\* the first transaction has a link of 1 to
InitLedger ==
    /\ schema \in {"sqlite", "duckdb"}
    /\ accounts = [i \in {1} |-> [name |-> "main", type |-> "bank", opening_balance |-> 0]]
    /\ contacts = <<>>
    /\ transactions = [i \in 1..ConcTxns |->
            [account_id |-> 1, type |-> "expense", amount |-> MaxAmount,
             reference |-> NULL, transfer_account_id |-> 0]]
    /\ bills = [i \in {1} |-> [amount |-> MaxAmount, status |-> "partial", contact_id |-> 0]]
    /\ invoices = <<>>
    /\ payouts = <<>>
    /\ links = [i \in {1} |-> [transaction_id |-> 1, document_type |-> "bill",
                               document_id |-> 1, amount |-> 1]]
    /\ seq = [t \in Tables |->
            CASE t = "accounts" -> 1 [] t = "transactions" -> ConcTxns [] t = "bills" -> 1
              [] t = "transaction_documents" -> 1 [] OTHER -> 0]
    /\ last = Exchange("CreateTransactionLink", 1, 201, "", [id |-> 1] @@ links[1])
    /\ proc = [p \in Procs |-> Idle]

NextLedger ==
    \E p \in Procs :
        \/ \E txnID \in 1..ConcTxns, input \in ConcLinkInputs : LinkReadTransaction(p, txnID, input)
        \/ LinkSumTransaction(p)
        \/ LinkReadDocument(p)
        \/ LinkSumDocument(p)
        \/ LinkInsert(p)
        \/ \E txnID \in 1..ConcTxns, linkID \in LinkIds : UnlinkReadLink(p, txnID, linkID)
        \/ UnlinkDelete(p)
        \/ StatusRead(p)
        \/ StatusWrite(p)
        \/ LinkRespond(p)
        \/ UnlinkRespond(p)

SpecLedger == InitLedger /\ [][NextLedger]_vars

(* ------------------- a transfer as a store transaction ----------------- *)
(* The transfer branch of CreateTransaction runs between DB.Begin and      *)
(* tx.Commit: its rows are staged in proc[p].staged and reach transactions *)
(* at the commit only.  Every tx.Exec and the commit may return an error;  *)
(* the code returns on the error of an INSERT and of the commit (the       *)
(* deferred tx.Rollback then drops the staged rows) and discards the       *)
(* result of the reference UPDATE.  Writers are serialised by the store,   *)
(* so other handlers write only while no store transaction is open.        *)
TransferInputs ==
    [account_id : {1}, type : {"transfer"}, amount : 1..MaxAmount,
     reference : {NULL, "TRF-0"}, transfer_account_id : {2}]

TransferTxnIds == 1..(2 * Cardinality(Procs))

NoOpenTx == \A p \in Procs : proc[p].pc \in {"idle", "done"}

\* writeError / writeJSON of a request in flight
Respond(p, code, msg, data) ==
    /\ proc' = [proc EXCEPT ![p] = [proc[p] EXCEPT !.pc = "done", !.code = code, !.msg = msg]]
    /\ last' = Exchange("CreateTransaction", 0, code, msg, data)

\* defer tx.Rollback(): the staged rows are dropped; SQLite's AUTOINCREMENT counter
\* is part of the rolled back transaction, a DuckDB sequence is not
Rollback(p) ==
    /\ seq' = IF schema = "sqlite"
              THEN [seq EXCEPT !["transactions"] = proc[p].seq0]
              ELSE seq
    /\ UNCHANGED <<accounts, contacts, transactions, bills, invoices, payouts, links>>

\* input.Validate(), DB.Begin(), and the placeholder reference
TransferBegin(p, input) ==
    LET msg == TransactionInputValidate(input)
        call == [pc |-> "insertExpense", input |-> input,
                 ref |-> IF input.reference = NULL THEN TransferReference(0) ELSE input.reference,
                 id1 |-> 0, id2 |-> 0, staged |-> <<>>, patched |-> FALSE,
                 seq0 |-> seq["transactions"], code |-> 0, msg |-> ""]
    IN /\ proc[p].pc = "idle"
       /\ NoOpenTx
       /\ input.type = "transfer"
       /\ IF msg # ""
          THEN /\ proc' = [proc EXCEPT ![p] = [call EXCEPT !.pc = "done", !.code = 400, !.msg = msg]]
               /\ last' = Exchange("CreateTransaction", 0, 400, msg, NoData)
          ELSE proc' = [proc EXCEPT ![p] = call] /\ UNCHANGED last
       /\ UNCHANGED <<schema, store>>

\* res1, err := tx.Exec(INSERT ... 'expense' ...); id1, _ := res1.LastInsertId()
TransferInsertExpense(p) ==
    LET c == proc[p]
        id == seq["transactions"] + 1
        expense == [account_id |-> c.input.account_id, type |-> "expense",
                    amount |-> c.input.amount, reference |-> c.ref,
                    transfer_account_id |-> c.input.transfer_account_id]
    IN /\ c.pc = "insertExpense"
       /\ \E ok \in BOOLEAN :
            IF ok /\ TransactionForeignKeysHold(expense)
            THEN /\ proc' = [proc EXCEPT ![p] =
                        [c EXCEPT !.pc = "insertIncome", !.id1 = id,
                                  !.staged = Put(c.staged, id, expense)]]
                 /\ seq' = [seq EXCEPT !["transactions"] = id]
                 /\ UNCHANGED <<accounts, contacts, transactions, bills, invoices, payouts, links, last>>
            ELSE /\ Respond(p, 500, "insert failed", NoData)
                 /\ Rollback(p)
       /\ UNCHANGED schema

\* _, err = tx.Exec(INSERT ... 'income' ...)
TransferInsertIncome(p) ==
    LET c == proc[p]
        id == seq["transactions"] + 1
        income == [account_id |-> c.input.transfer_account_id, type |-> "income",
                   amount |-> c.input.amount, reference |-> c.ref,
                   transfer_account_id |-> c.input.account_id]
    IN /\ c.pc = "insertIncome"
       /\ \E ok \in BOOLEAN :
            IF ok /\ TransactionForeignKeysHold(income)
            THEN /\ proc' = [proc EXCEPT ![p] =
                        [c EXCEPT !.pc = IF c.input.reference = NULL THEN "patch" ELSE "commit",
                                  !.id2 = id, !.staged = Put(c.staged, id, income)]]
                 /\ seq' = [seq EXCEPT !["transactions"] = id]
                 /\ UNCHANGED <<accounts, contacts, transactions, bills, invoices, payouts, links, last>>
            ELSE /\ Respond(p, 500, "insert failed", NoData)
                 /\ Rollback(p)
       /\ UNCHANGED schema

\* tx.Exec("UPDATE transactions SET reference = ? WHERE reference = ?", autoRef, *ref):
\* neither the result nor the error is looked at
TransferPatch(p) ==
    LET c == proc[p]
    IN /\ c.pc = "patch"
       /\ \E ok \in BOOLEAN :
            proc' = [proc EXCEPT ![p] =
                IF ok THEN [c EXCEPT !.pc = "commit", !.patched = TRUE,
                                     !.staged = PatchReference(c.staged, c.ref, TransferReference(c.id1))]
                ELSE [c EXCEPT !.pc = "commit"]]
       /\ UNCHANGED <<schema, store, last>>

\* tx.Commit(), then the re-read of row id1 and writeJSON(201)
TransferCommit(p) ==
    LET c == proc[p]
        stored == IF c.patched
                  THEN PatchReference(transactions, c.ref, TransferReference(c.id1))
                  ELSE transactions
    IN /\ c.pc = "commit"
       /\ \E ok \in BOOLEAN :
            IF ok
            THEN /\ transactions' = c.staged @@ stored
                 /\ Respond(p, 201, "", scanTransaction(transactions', links, c.id1))
                 /\ UNCHANGED <<accounts, contacts, bills, invoices, payouts, links, seq>>
            ELSE /\ Respond(p, 500, "commit failed", NoData)
                 /\ Rollback(p)
       /\ UNCHANGED schema

\* a handler that writes outside any store transaction
Serial(request) == NoOpenTx /\ request /\ UNCHANGED <<schema, proc>>

\* a store with the source account, with or without the destination account
InitTransfer ==
    /\ schema \in {"sqlite", "duckdb"}
    /\ \E n \in 1..2 :
         /\ accounts = [i \in 1..n |-> [name |-> "main", type |-> "bank", opening_balance |-> 0]]
         /\ seq = [t \in Tables |-> IF t = "accounts" THEN n ELSE 0]
    /\ contacts = <<>>
    /\ transactions = <<>>
    /\ bills = <<>>
    /\ invoices = <<>>
    /\ payouts = <<>>
    /\ links = <<>>
    /\ last = Exchange("Migrate", 0, 0, "", NoData)
    /\ proc = [p \in Procs |-> Idle]

NextTransfer ==
    \/ \E p \in Procs, input \in TransferInputs : TransferBegin(p, input)
    \/ \E p \in Procs : TransferInsertExpense(p)
    \/ \E p \in Procs : TransferInsertIncome(p)
    \/ \E p \in Procs : TransferPatch(p)
    \/ \E p \in Procs : TransferCommit(p)
    \/ \E id \in TransferTxnIds, input \in TransactionInputs :
           Serial(UpdateTransaction(id, input))
    \/ \E id \in TransferTxnIds : Serial(DeleteTransaction(id))

SpecTransfer == InitTransfer /\ [][NextTransfer]_vars

(* Transfers and plain transactions with every handler running from        *)
(* request to response and every store statement succeeding.               *)
NextTransactions ==
    \/ \E input \in TransferInputs \cup TransactionInputs :
           /\ seq["transactions"] + 2 <= Cardinality(TransferTxnIds)
           /\ Handle(CreateTransaction(input))
    \/ \E id \in TransferTxnIds, input \in TransactionInputs :
           Handle(UpdateTransaction(id, input))
    \/ \E id \in TransferTxnIds : Handle(DeleteTransaction(id))

SpecTransactions == InitTransfer /\ [][NextTransactions]_vars

(* ------------------- documents with hand-set statuses ------------------ *)
(* Bills and invoices whose status the request sets itself, and the links  *)
(* of one transaction to them.                                             *)
StatusBillInputs == [amount : 1..MaxAmount, status : {"overdue", "cancelled"}, contact_id : {0}]
StatusInvoiceInputs == [amount : {MaxAmount}, status : {"sent", "overdue"}, contact_id : {0}]
StatusLinkInputs ==
    [document_type : {"bill", "invoice"}, document_id : {1}, amount : 1..MaxAmount]

\* a store holding one account and one transaction of MaxAmount
InitStatus ==
    /\ schema \in {"sqlite", "duckdb"}
    /\ accounts = [i \in {1} |-> [name |-> "main", type |-> "bank", opening_balance |-> 0]]
    /\ contacts = <<>>
    /\ transactions = [i \in {1} |->
            [account_id |-> 1, type |-> "expense", amount |-> MaxAmount,
             reference |-> NULL, transfer_account_id |-> 0]]
    /\ bills = <<>>
    /\ invoices = <<>>
    /\ payouts = <<>>
    /\ links = <<>>
    /\ seq = [t \in Tables |-> IF t \in {"accounts", "transactions"} THEN 1 ELSE 0]
    /\ last = Exchange("Migrate", 0, 0, "", NoData)
    /\ proc = [p \in Procs |-> Idle]

NextStatus ==
    \/ \E input \in StatusBillInputs : seq["bills"] < MaxBills /\ Handle(CreateBill(input))
    \/ \E id \in BillIds, input \in StatusBillInputs : Handle(UpdateBill(id, input))
    \/ \E input \in StatusInvoiceInputs :
           seq["invoices"] < MaxInvoices /\ Handle(CreateInvoice(input))
    \/ \E id \in InvoiceIds, input \in StatusInvoiceInputs : Handle(UpdateInvoice(id, input))
    \/ \E input \in StatusLinkInputs :
           seq["transaction_documents"] < MaxLinks /\ Handle(CreateTransactionLink(1, input))
    \/ \E linkID \in LinkIds : Handle(DeleteTransactionLink(1, linkID))

SpecStatus == InitStatus /\ [][NextStatus]_vars

(* updateDocumentStatus called on its own, with arguments drawn from the     *)
(* document types and ids, in the stores the handlers above build.          *)
Reconcile(docType, docID) ==
    /\ updateDocumentStatus(docType, docID, links)
    /\ last' = Exchange("updateDocumentStatus", docID, 0, "", [document_type |-> docType])
    /\ UNCHANGED <<schema, proc, accounts, contacts, transactions, payouts, links, seq>>

NextReconcile ==
    \/ NextStatus
    \/ \E input \in PayoutInputs : seq["payouts"] < MaxPayouts /\ Handle(CreatePayout(input))
    \/ \E input \in LinkInputs :
           seq["transaction_documents"] < MaxLinks /\ Handle(CreateTransactionLink(1, input))
    \/ \E docType \in DocumentTypes \cup {"receipt"}, docID \in 1..1 : Reconcile(docType, docID)

SpecReconcile == InitStatus /\ [][NextReconcile]_vars

(* ----------------- every entity, valid and invalid requests ------------ *)
(* Create, Update and Delete of the six entities and Link, with request    *)
(* bodies that pass and bodies that fail validation, and with ids that are *)
(* stored and ids that are not.                                            *)
CrudLinks == 1

CrudAccountInputs == [name : {"", "main"}, type : {"bank", "wallet"}, opening_balance : {0}]
CrudContactInputs == [name : {"", "acme"}, type : {"vendor", "agent"}]
CrudTransactionInputs ==
    [account_id : {0, 1}, type : {"expense", "gift", "transfer"}, amount : {0, MaxAmount},
     reference : {NULL}, transfer_account_id : {0, 1}]
CrudBillInputs == [amount : {-1, MaxAmount}, status : {"", "bogus"}, contact_id : {0}]
CrudInvoiceInputs == [amount : {-1, MaxAmount}, status : {"", "bogus"}, contact_id : {0}]
CrudPayoutInputs ==
    [outlet_name : {"", "outlet"}, platform : {"Swiggy", "swiggy", "uber"},
     final_payout_amt : {MaxAmount}]
CrudLinkInputs ==
    [document_type : {"bill", "receipt"}, document_id : {0, 1}, amount : {0, MaxAmount}]

\* ids 1..Max are handed out; the id after them is never stored
CrudIds == 1..(MaxAccounts + 1)

NextCrud ==
    \/ \E input \in CrudAccountInputs :
           seq["accounts"] < MaxAccounts /\ Handle(CreateAccount(input))
    \/ \E id \in CrudIds, input \in CrudAccountInputs : Handle(UpdateAccount(id, input))
    \/ \E id \in CrudIds : Handle(DeleteAccount(id))
    \/ \E input \in CrudContactInputs :
           seq["contacts"] < MaxAccounts /\ Handle(CreateContact(input))
    \/ \E id \in CrudIds, input \in CrudContactInputs : Handle(UpdateContact(id, input))
    \/ \E id \in CrudIds : Handle(DeleteContact(id))
    \/ \E input \in CrudTransactionInputs :
           seq["transactions"] < MaxTxns /\ Handle(CreateTransaction(input))
    \/ \E id \in CrudIds, input \in CrudTransactionInputs :
           Handle(UpdateTransaction(id, input))
    \/ \E id \in CrudIds : Handle(DeleteTransaction(id))
    \/ \E input \in CrudBillInputs : seq["bills"] < MaxBills /\ Handle(CreateBill(input))
    \/ \E id \in CrudIds, input \in CrudBillInputs : Handle(UpdateBill(id, input))
    \/ \E id \in CrudIds : Handle(DeleteBill(id))
    \/ \E input \in CrudInvoiceInputs :
           seq["invoices"] < MaxInvoices /\ Handle(CreateInvoice(input))
    \/ \E id \in CrudIds, input \in CrudInvoiceInputs : Handle(UpdateInvoice(id, input))
    \/ \E id \in CrudIds : Handle(DeleteInvoice(id))
    \/ \E input \in CrudPayoutInputs :
           seq["payouts"] < MaxPayouts /\ Handle(CreatePayout(input))
    \/ \E id \in CrudIds, input \in CrudPayoutInputs : Handle(UpdatePayout(id, input))
    \/ \E id \in CrudIds : Handle(DeletePayout(id))
    \/ \E id \in CrudIds, input \in CrudLinkInputs :
           seq["transaction_documents"] < CrudLinks /\ Handle(CreateTransactionLink(id, input))

SpecCrud == Init /\ [][NextCrud]_vars

(* Create, Update and Delete of the six entities by stored and unstored    *)
(* ids, with two bills so that a table can hold a row beside the deleted.  *)
RowBills == 2

RowAccountInputs == [name : {"", "main"}, type : {"bank"}, opening_balance : {0}]
RowContactInputs == [name : {"", "acme"}, type : {"vendor"}]
RowTransactionInputs ==
    [account_id : {1}, type : {"expense"}, amount : {0, MaxAmount},
     reference : {NULL}, transfer_account_id : {0}]
RowBillInputs == [amount : {-1, MaxAmount}, status : {""}, contact_id : {0}]
RowInvoiceInputs == [amount : {-1, MaxAmount}, status : {""}, contact_id : {0}]
RowPayoutInputs ==
    [outlet_name : {"", "outlet"}, platform : {"Swiggy", "swiggy"}, final_payout_amt : {MaxAmount}]

RowIds == 1..RowBills

NextRows ==
    \/ \E input \in RowAccountInputs :
           seq["accounts"] < MaxAccounts /\ Handle(CreateAccount(input))
    \/ \E id \in RowIds, input \in RowAccountInputs : Handle(UpdateAccount(id, input))
    \/ \E id \in RowIds : Handle(DeleteAccount(id))
    \/ \E input \in RowContactInputs :
           seq["contacts"] < MaxAccounts /\ Handle(CreateContact(input))
    \/ \E id \in RowIds, input \in RowContactInputs : Handle(UpdateContact(id, input))
    \/ \E id \in RowIds : Handle(DeleteContact(id))
    \/ \E input \in RowTransactionInputs :
           seq["transactions"] < MaxTxns /\ Handle(CreateTransaction(input))
    \/ \E id \in RowIds, input \in RowTransactionInputs :
           Handle(UpdateTransaction(id, input))
    \/ \E id \in RowIds : Handle(DeleteTransaction(id))
    \/ \E input \in RowBillInputs : seq["bills"] < RowBills /\ Handle(CreateBill(input))
    \/ \E id \in RowIds, input \in RowBillInputs : Handle(UpdateBill(id, input))
    \/ \E id \in RowIds : Handle(DeleteBill(id))
    \/ \E input \in RowInvoiceInputs :
           seq["invoices"] < MaxInvoices /\ Handle(CreateInvoice(input))
    \/ \E id \in RowIds, input \in RowInvoiceInputs : Handle(UpdateInvoice(id, input))
    \/ \E id \in RowIds : Handle(DeleteInvoice(id))
    \/ \E input \in RowPayoutInputs :
           seq["payouts"] < MaxPayouts /\ Handle(CreatePayout(input))
    \/ \E id \in RowIds, input \in RowPayoutInputs : Handle(UpdatePayout(id, input))
    \/ \E id \in RowIds : Handle(DeletePayout(id))

SpecRows == Init /\ [][NextRows]_vars

(* ------------------- writes followed by reads ------------------------- *)
ReadAccountInputs == [name : {"main"}, type : {"bank"}, opening_balance : {0}]
ReadContactInputs == [name : {"acme"}, type : {"vendor", "customer"}]
ReadTransactionInputs ==
    [account_id : {1}, type : {"expense"}, amount : {MaxAmount},
     reference : {NULL}, transfer_account_id : {0}]
ReadBillInputs == [amount : {1, MaxAmount}, status : {""}, contact_id : {0, 1}]
ReadInvoiceInputs == [amount : {MaxAmount}, status : {""}, contact_id : {0, 1}]
ReadPayoutInputs ==
    [outlet_name : {"outlet"}, platform : {"Swiggy", "swiggy"}, final_payout_amt : {MaxAmount}]
ReadLinkInputs ==
    [document_type : {"bill", "invoice", "payout"}, document_id : {1}, amount : {1}]

NextRead ==
    \/ \E input \in ReadAccountInputs :
           seq["accounts"] < MaxAccounts /\ Handle(CreateAccount(input))
    \/ \E id \in AccountIds, input \in ReadAccountInputs : Handle(UpdateAccount(id, input))
    \/ \E id \in AccountIds : Handle(GetAccount(id))
    \/ \E input \in ReadContactInputs :
           seq["contacts"] < MaxAccounts /\ Handle(CreateContact(input))
    \/ \E id \in AccountIds, input \in ReadContactInputs : Handle(UpdateContact(id, input))
    \/ \E id \in AccountIds : Handle(GetContact(id))
    \/ \E input \in ReadTransactionInputs :
           seq["transactions"] < MaxTxns /\ Handle(CreateTransaction(input))
    \/ \E id \in TransactionIds, input \in ReadTransactionInputs :
           Handle(UpdateTransaction(id, input))
    \/ \E id \in TransactionIds : Handle(GetTransaction(id))
    \/ \E input \in ReadBillInputs : seq["bills"] < MaxBills /\ Handle(CreateBill(input))
    \/ \E id \in BillIds, input \in ReadBillInputs : Handle(UpdateBill(id, input))
    \/ \E id \in BillIds : Handle(GetBill(id))
    \/ \E input \in ReadInvoiceInputs :
           seq["invoices"] < MaxInvoices /\ Handle(CreateInvoice(input))
    \/ \E id \in InvoiceIds, input \in ReadInvoiceInputs : Handle(UpdateInvoice(id, input))
    \/ \E id \in InvoiceIds : Handle(GetInvoice(id))
    \/ \E input \in ReadPayoutInputs :
           seq["payouts"] < MaxPayouts /\ Handle(CreatePayout(input))
    \/ \E id \in PayoutIds, input \in ReadPayoutInputs : Handle(UpdatePayout(id, input))
    \/ \E id \in PayoutIds : Handle(GetPayout(id))
    \/ \E id \in TransactionIds, input \in ReadLinkInputs :
           seq["transaction_documents"] < MaxLinks
           /\ Handle(CreateTransactionLink(id, input))

SpecRead == Init /\ [][NextRead]_vars

(* ------------------ rows created beside linked rows --------------------- *)
FreshRows == 2

FreshTransactionInputs ==
    [account_id : {1}, type : {"income", "expense"}, amount : {MaxAmount},
     reference : {NULL}, transfer_account_id : {0}]
FreshBillInputs == [amount : {1, MaxAmount}, status : {""}, contact_id : {0}]
FreshInvoiceInputs == [amount : {MaxAmount}, status : {""}, contact_id : {0}]
FreshPayoutInputs ==
    [outlet_name : {"outlet"}, platform : {"Swiggy", "swiggy"}, final_payout_amt : {MaxAmount}]
FreshLinkInputs ==
    [document_type : {"bill", "invoice", "payout"}, document_id : {1}, amount : {1}]

FreshIds == 1..FreshRows

\* a store that holds one account
InitFresh ==
    /\ schema \in {"sqlite", "duckdb"}
    /\ accounts = [i \in {1} |-> [name |-> "main", type |-> "bank", opening_balance |-> 0]]
    /\ contacts = <<>>
    /\ transactions = <<>>
    /\ bills = <<>>
    /\ invoices = <<>>
    /\ payouts = <<>>
    /\ links = <<>>
    /\ seq = [t \in Tables |-> IF t = "accounts" THEN 1 ELSE 0]
    /\ last = Exchange("CreateAccount", 0, 201, "", getAccountByID(accounts, transactions, 1))
    /\ proc = [p \in Procs |-> Idle]

NextFresh ==
    \/ \E input \in FreshTransactionInputs :
           seq["transactions"] < FreshRows /\ Handle(CreateTransaction(input))
    \/ \E id \in FreshIds : Handle(GetTransaction(id))
    \/ \E input \in FreshBillInputs : seq["bills"] < FreshRows /\ Handle(CreateBill(input))
    \/ \E id \in FreshIds : Handle(GetBill(id))
    \/ \E id \in FreshIds : Handle(DeleteBill(id))
    \/ \E input \in FreshInvoiceInputs :
           seq["invoices"] < MaxInvoices /\ Handle(CreateInvoice(input))
    \/ \E id \in InvoiceIds : Handle(GetInvoice(id))
    \/ \E input \in FreshPayoutInputs :
           seq["payouts"] < MaxPayouts /\ Handle(CreatePayout(input))
    \/ \E id \in PayoutIds : Handle(GetPayout(id))
    \/ \E id \in FreshIds, input \in FreshLinkInputs :
           seq["transaction_documents"] < MaxLinks
           /\ Handle(CreateTransactionLink(id, input))

SpecFresh == InitFresh /\ [][NextFresh]_vars

\* ---------------------------------------------------------------------------
\* Properties of the allocation ledger
\* ---------------------------------------------------------------------------

\* C1: after any sequence of operations, the amounts of the links of every stored
\* transaction sum to at most the transaction's amount.
C1_TransactionNotOverAllocated ==
    \A t \in DOMAIN transactions : TxnAllocated(links, t) <= transactions[t].amount

\* C2: after any sequence of operations, the amounts of the links of every stored
\* document sum to at most the document's amount (final_payout_amt for a payout).
C2_DocumentNotOverAllocated ==
    \A docType \in DocumentTypes : \A d \in DOMAIN DocTable(docType) :
        DocAllocated(links, docType, d) <= DocAmount(docType, d)

\* the links two requests in flight have both inserted
InsertedBy(p) ==
    IF proc[p].pc \in {"statusRead", "statusWrite", "respond", "done"}
    THEN {proc[p].id} \ {0} ELSE {}

\* C3: two Link operations running concurrently against the same transaction, or
\* against the same document, never insert links that together exceed what was
\* unallocated on that transaction or document before either of them inserted.
C3_ConcurrentLinksWithinCapacity ==
    \A p \in Procs, q \in Procs :
        (p # q /\ InsertedBy(p) # {} /\ InsertedBy(q) # {}) =>
            LET both == InsertedBy(p) \cup InsertedBy(q)
                before == [l \in (DOMAIN links) \ both |-> links[l]]
                lp == links[proc[p].id]
                lq == links[proc[q].id]
            IN /\ (lp.transaction_id = lq.transaction_id) =>
                      lp.amount + lq.amount <=
                          transactions[lp.transaction_id].amount
                          - TxnAllocated(before, lp.transaction_id)
               /\ (lp.document_type = lq.document_type
                   /\ lp.document_id = lq.document_id) =>
                      lp.amount + lq.amount <=
                          DocAmount(lp.document_type, lp.document_id)
                          - DocAllocated(before, lp.document_type, lp.document_id)

\* the status the reconciliation rule assigns to (amount, allocated)
ClaimedStatus(amount, allocated, fullStatus) ==
    CASE amount <= 0 \/ allocated <= 0 -> "draft"
      [] amount > 0 /\ 0 < allocated /\ allocated < amount -> "partial"
      [] amount > 0 /\ allocated > 0 /\ allocated >= amount -> fullStatus

StatusAsClaimed(B, I, L, docType, docID) ==
    /\ (docType = "bill" /\ docID \in DOMAIN B) =>
           B[docID].status =
               ClaimedStatus(B[docID].amount, DocAllocated(L, "bill", docID), "paid")
    /\ (docType = "invoice" /\ docID \in DOMAIN I) =>
           I[docID].status =
               ClaimedStatus(I[docID].amount, DocAllocated(L, "invoice", docID), "received")

\* C4: right after a successful Link or Unlink against a bill, the bill's stored
\* status is draft when its amount <= 0 or its allocated total <= 0, partial when
\* 0 < allocated < amount, and paid when allocated >= amount; for an invoice the
\* same holds with received in place of paid.
C4_StatusAfterLinkOrUnlink ==
    [][ /\ (last'.op = "CreateTransactionLink" /\ last'.code = 201) =>
               StatusAsClaimed(bills', invoices', links',
                               last'.data.document_type, last'.data.document_id)
        /\ (last'.op = "DeleteTransactionLink" /\ last'.code = 200
            /\ last'.data.link_id \in DOMAIN links) =>
               StatusAsClaimed(bills', invoices', links',
                               links[last'.data.link_id].document_type,
                               links[last'.data.link_id].document_id)
      ]_vars

\* one of two links of a bill has just been removed and left the bill partial
C4_Witness ==
    /\ last.op = "DeleteTransactionLink" /\ last.code = 200
    /\ seq["invoices"] = 0 /\ seq["payouts"] = 0
    /\ \E b \in DOMAIN bills :
          /\ bills[b].status = "partial"
          /\ DocAllocated(links, "bill", b) > 0
          /\ DocAllocated(links, "bill", b) < bills[b].amount

\* the unallocated amounts a read of the transaction or document would report
TxnUnallocated(id) == transactions[id].amount - TxnAllocated(links, id)
DocUnallocated(docType, docID) ==
    DocAmount(docType, docID) - DocAllocated(links, docType, docID)

\* a Link request naming a stored transaction and a stored bill, invoice or payout
BothStored(id, input) ==
    /\ id \in DOMAIN transactions
    /\ input.document_type \in DocumentTypes
    /\ input.document_id \in DOMAIN DocTable(input.document_type)

CapacityExceeded(x) == x.code = 400 /\ x.msg \in {TxnCapacityMsg, DocCapacityMsg}

\* C5: a Link whose amount is one more than the unallocated amount of the
\* transaction, or of the document, fails with CapacityExceeded and leaves the
\* links and every document status as they were.
C5_OneOverCapacityRejected ==
    [][ \A id \in TransactionIds, input \in LinkInputs :
          ( /\ BothStored(id, input)
            /\ \/ input.amount = TxnUnallocated(id) + 1
               \/ input.amount = DocUnallocated(input.document_type, input.document_id) + 1
            /\ CreateTransactionLink(id, input) )
          => ( /\ CapacityExceeded(last')
               /\ links' = links /\ bills' = bills /\ invoices' = invoices )
      ]_vars

\* C6: a Link of a positive amount that is exactly the unallocated amount of the
\* transaction and within the document's, or exactly the document's and within
\* the transaction's, succeeds and leaves that side with nothing unallocated.
C6_ExactRemainingAccepted ==
    [][ \A id \in TransactionIds, input \in LinkInputs :
          ( /\ BothStored(id, input)
            /\ input.amount > 0
            /\ input.amount <= TxnUnallocated(id)
            /\ input.amount <= DocUnallocated(input.document_type, input.document_id)
            /\ \/ input.amount = TxnUnallocated(id)
               \/ input.amount = DocUnallocated(input.document_type, input.document_id)
            /\ CreateTransactionLink(id, input) )
          => ( /\ last'.code = 201
               /\ (input.amount = TxnUnallocated(id)) => TxnUnallocated(id)' = 0
               /\ (input.amount = DocUnallocated(input.document_type, input.document_id))
                    => DocUnallocated(input.document_type, input.document_id)' = 0 )
      ]_vars

\* C7: a successful Unlink removes the link with the given id and no other, and
\* the unallocated amounts of that link's transaction and of its document, where
\* they are stored, are each larger afterwards by the link's amount.
C7_UnlinkRemovesOneLink ==
    [][ (last'.op = "DeleteTransactionLink" /\ last'.code = 200
         /\ last'.data.link_id \in DOMAIN links) =>
            LET l == last'.data.link_id
                row == links[l]
            IN /\ DOMAIN links' = (DOMAIN links) \ {l}
               /\ \A k \in DOMAIN links' : links'[k] = links[k]
               /\ transactions' = transactions /\ payouts' = payouts
               /\ \A t \in DOMAIN transactions :
                      t = row.transaction_id =>
                          TxnUnallocated(t)' = TxnUnallocated(t) + row.amount
               /\ \A docType \in DocumentTypes : \A d \in DOMAIN DocTable(docType) :
                      (docType = row.document_type /\ d = row.document_id) =>
                          DocUnallocated(docType, d)' = DocUnallocated(docType, d) + row.amount
      ]_vars

\* one of two links of a stored transaction has just been removed
C7_Witness ==
    /\ last.op = "DeleteTransactionLink" /\ last.code = 200
    /\ last.id \in DOMAIN transactions
    /\ \E k \in DOMAIN links :
          /\ links[k].transaction_id = last.id
          /\ links[k].document_id \in DOMAIN DocTable(links[k].document_type)

\* C8: an Unlink naming a stored link of another transaction returns NotFound
\* (link), removes no link and leaves every document status as it was.
C8_ForeignLinkNotRemoved ==
    [][ (last'.op = "DeleteTransactionLink"
         /\ last'.data.link_id \in DOMAIN links
         /\ links[last'.data.link_id].transaction_id # last'.id) =>
            /\ last'.code = 404 /\ last'.msg = "link not found"
            /\ links' = links
            /\ bills' = bills /\ invoices' = invoices
      ]_vars

\* the refused Unlink named a link whose document carries a status that a
\* reconciliation would have replaced
C8_Witness ==
    /\ last.op = "DeleteTransactionLink" /\ last.code = 404
    /\ last.data.link_id \in DOMAIN links
    /\ LET row == links[last.data.link_id]
       IN /\ row.transaction_id # last.id
          /\ row.document_id \in DOMAIN DocTable(row.document_type)
          /\ ~StatusAsClaimed(bills, invoices, links, row.document_type, row.document_id)

\* C9: for a stored transaction and a stored payout, a Link of a positive amount
\* within the transaction's unallocated amount and within the payout's
\* final_payout_amt less its links inserts a payout link and returns it.
C9_PayoutLinkAccepted ==
    [][ \A id \in TransactionIds, input \in LinkInputs :
          ( /\ input.document_type = "payout"
            /\ BothStored(id, input)
            /\ input.amount > 0
            /\ input.amount <= TxnUnallocated(id)
            /\ input.amount <= DocUnallocated("payout", input.document_id)
            /\ CreateTransactionLink(id, input) )
          => ( /\ last'.code = 201
               /\ \E l \in (DOMAIN links') \ (DOMAIN links) :
                     /\ links'[l] = LinkRow(id, input)
                     /\ last'.data = [id |-> l] @@ links'[l] )
      ]_vars

\* the preconditions of Link, each with the state in which a request violates it
Violates(pre, id, input) ==
    CASE pre = "amount" -> input.amount <= 0
      [] pre = "documentType" -> input.document_type \notin ValidatedDocumentTypes
      [] pre = "documentID" -> input.document_id <= 0
      [] pre = "transaction" -> id \notin DOMAIN transactions
      [] pre = "transactionCapacity" ->
            id \in DOMAIN transactions /\ input.amount > TxnUnallocated(id)
      [] pre = "document" ->
            ~(/\ input.document_type \in DocumentTypes
              /\ input.document_id \in DOMAIN DocTable(input.document_type))
      [] pre = "documentCapacity" ->
            /\ input.document_type \in DocumentTypes
            /\ input.document_id \in DOMAIN DocTable(input.document_type)
            /\ input.amount > DocUnallocated(input.document_type, input.document_id)

Violated(order, id, input) == {i \in 1..Len(order) : Violates(order[i], id, input)}

Earliest(order, id, input) ==
    order[CHOOSE i \in Violated(order, id, input) :
              \A j \in Violated(order, id, input) : i <= j]

\* the kind of failure an exchange reports, and the kind each precondition names
Kind(x) ==
    CASE x.code = 400 /\ x.msg = TxnCapacityMsg -> "CapacityExceeded(transaction)"
      [] x.code = 400 /\ x.msg = DocCapacityMsg -> "CapacityExceeded(document)"
      [] x.code = 400 /\ x.msg \notin {TxnCapacityMsg, DocCapacityMsg} -> "InvalidInput"
      [] x.code = 404 /\ x.msg = "transaction not found" -> "NotFound(transaction)"
      [] x.code = 404 /\ x.msg = DocNotFoundMsg -> "NotFound(document)"
      [] OTHER -> "none"

KindOf(pre) ==
    CASE pre \in {"amount", "documentType", "documentID"} -> "InvalidInput"
      [] pre = "transaction" -> "NotFound(transaction)"
      [] pre = "transactionCapacity" -> "CapacityExceeded(transaction)"
      [] pre = "document" -> "NotFound(document)"
      [] pre = "documentCapacity" -> "CapacityExceeded(document)"

MessageOf(pre) ==
    CASE pre = "amount" -> "amount must be positive"
      [] pre = "documentType" -> "document_type must be one of: bill, invoice"
      [] pre = "documentID" -> "document_id is required"
      [] pre = "transaction" -> "transaction not found"
      [] pre = "transactionCapacity" -> TxnCapacityMsg
      [] pre = "document" -> DocNotFoundMsg
      [] pre = "documentCapacity" -> DocCapacityMsg

ClaimedOrder ==
    <<"amount", "documentType", "transaction", "transactionCapacity",
      "document", "documentCapacity">>

CheckedOrder ==
    <<"documentType", "documentID", "amount", "transaction", "transactionCapacity",
      "document", "documentCapacity">>

\* the last exchange is a refused Link, and input is a request body it may have
\* answered: a refused Link writes nothing, so the store is the one it was run on
Answered(input) ==
    /\ last.op = "CreateTransactionLink" /\ last.code # 201
    /\ last = LinkCheck(last.id, input)

C11_LinkAmountsPositive ==
    /\ \A l \in DOMAIN links : links[l].amount > 0
    /\ last.op = "CreateTransactionLink" =>
           \A input \in LinkInputs :
               (input.amount <= 0 /\ last = LinkCheck(last.id, input)) =>
                   Kind(last) = "InvalidInput"

\* a Link of a valid document type and id with amount 0 has just been refused,
\* while a link is stored
C11_Witness ==
    /\ last.op = "CreateTransactionLink"
    /\ last.code = 400 /\ last.msg = "amount must be positive"
    /\ links # <<>>

\* ---------------------------------------------------------------------------
\* Properties of transfers
\* ---------------------------------------------------------------------------

\* request p has created a transfer: rows id1 (expense) and id2 (income)
Created(p) == proc[p].pc = "done" /\ proc[p].code = 201

\* C12: in every state reached by creating, updating and deleting transactions,
\* the two rows created by one transfer, while both are stored, have equal amount,
\* equal reference and opposite pairing of account_id and transfer_account_id.
C12_TransferRowsPaired ==
    \A p \in Procs :
        (Created(p) /\ {proc[p].id1, proc[p].id2} \subseteq DOMAIN transactions) =>
            LET expense == transactions[proc[p].id1]
                income == transactions[proc[p].id2]
            IN /\ expense.amount = income.amount
               /\ expense.reference = income.reference
               /\ expense.account_id = income.transfer_account_id
               /\ expense.transfer_account_id = income.account_id

\* the rows a step has inserted
NewRows == DOMAIN transactions' \ DOMAIN transactions

JustCreated(p) ==
    Created(p) /\ last = Exchange("CreateTransaction", 0, 201, "", [id |-> proc[p].id1])

\* the stored rows that request p's transfer inserted (a rolled back id may be
\* given out again, to another request's transfer)
StoredOf(p) ==
    IF proc[p].pc = "idle" THEN {}
    ELSE {i \in ({proc[p].id1, proc[p].id2} \ {0}) \cap DOMAIN transactions :
            \A q \in Procs \ {p} : Created(q) => i \notin {proc[q].id1, proc[q].id2}}

InFlight(p) == proc[p].pc \notin {"idle", "done"}

\* a statement of request p's transfer, or its commit, has returned an error
StepFailed(p) ==
    /\ proc[p].pc # "idle"
    /\ \/ proc[p].code = 500
       \/ /\ proc[p].pc \in {"commit", "done"}
          /\ proc[p].input.reference = NULL
          /\ ~proc[p].patched

\* C14: creating a transfer is all-or-nothing: while the creation is in flight
\* none of its rows is stored, when it has answered 201 both are, and after a
\* failure of any of its steps (first insert, second insert, reference patch,
\* commit) no row of the transfer is stored.
C14_TransferAllOrNothing ==
    \A p \in Procs :
        /\ InFlight(p) => StoredOf(p) = {}
        /\ JustCreated(p) => StoredOf(p) = {proc[p].id1, proc[p].id2}
        /\ StepFailed(p) => StoredOf(p) = {}

\* ---------------------------------------------------------------------------
\* Properties of reconciliation and of the handlers' frames
\* ---------------------------------------------------------------------------

\* statuses only a Create or Update request can give
ManualStatuses == {"sent", "overdue", "cancelled"}

\* the step is a successful Link or Unlink whose link names document (docType, docID)
Targets(docType, docID) ==
    \/ /\ last'.op = "CreateTransactionLink" /\ last'.code = 201
       /\ last'.data.document_type = docType /\ last'.data.document_id = docID
    \/ /\ last'.op = "DeleteTransactionLink" /\ last'.code = 200
       /\ last'.data.link_id \in DOMAIN links
       /\ links[last'.data.link_id].document_type = docType
       /\ links[last'.data.link_id].document_id = docID

\* C15: a stored bill or invoice whose status was set by hand through Create or
\* Update (sent, overdue, cancelled) has, right after the next successful Link or
\* Unlink that targets it, the status computed from its amount and allocated total.
C15_ManualStatusOverwritten ==
    [][ /\ \A b \in DOMAIN bills :
              (Targets("bill", b) /\ bills[b].status \in ManualStatuses) =>
                  /\ bills'[b].status \notin ManualStatuses
                  /\ StatusAsClaimed(bills', invoices', links', "bill", b)
        /\ \A i \in DOMAIN invoices :
              (Targets("invoice", i) /\ invoices[i].status \in ManualStatuses) =>
                  /\ invoices'[i].status \notin ManualStatuses
                  /\ StatusAsClaimed(bills', invoices', links', "invoice", i)
      ]_vars

\* the first link ever inserted names bill 1, which until then carried the status
\* its Create or Update gave it, and has left it partial
C15_Witness ==
    /\ last.op = "CreateTransactionLink" /\ last.code = 201
    /\ last.data.document_type = "bill"
    /\ seq["transaction_documents"] = 1
    /\ bills[1].status = "partial"

\* C16: reconciliation does nothing for a payout: a call of updateDocumentStatus
\* for a payout, and every Link or Unlink step that does not succeed on a bill or
\* an invoice (so every one whose document is a payout), leaves every payout row
\* and the status of every bill and invoice unchanged.
C16_PayoutReconciliationNoOp ==
    [][ /\ (last'.op = "updateDocumentStatus" /\ last'.data.document_type = "payout") =>
               UNCHANGED <<payouts, bills, invoices>>
        /\ (/\ last'.op \in {"CreateTransactionLink", "DeleteTransactionLink"}
            /\ \A docType \in {"bill", "invoice"}, d \in 1..1 : ~Targets(docType, d)) =>
               UNCHANGED <<payouts, bills, invoices>>
      ]_vars

\* updateDocumentStatus has run for the stored payout 1 while bill 1, linked,
\* carries a status a reconciliation of it would replace
C16_Witness ==
    /\ last.op = "updateDocumentStatus" /\ last.data.document_type = "payout" /\ last.id = 1
    /\ 1 \in DOMAIN payouts /\ 1 \in DOMAIN bills
    /\ DocAllocated(links, "bill", 1) > 0
    /\ bills[1].status \in ManualStatuses

\* C17: a link enters the store only through a successful Link and leaves it only
\* through a successful Unlink, and either step leaves the link's document with
\* its reconciled status; no other operation (deleting a transaction or a
\* document in particular) adds or removes a link.
C17_LinksChangeOnlyByLinkAndUnlink ==
    [][ /\ \A l \in DOMAIN links' \ DOMAIN links :
              /\ last'.op = "CreateTransactionLink" /\ last'.code = 201
              /\ StatusAsClaimed(bills', invoices', links',
                                 links'[l].document_type, links'[l].document_id)
        /\ \A l \in DOMAIN links \ DOMAIN links' :
              /\ last'.op = "DeleteTransactionLink" /\ last'.code = 200
              /\ StatusAsClaimed(bills', invoices', links',
                                 links[l].document_type, links[l].document_id)
      ]_vars

\* the rows of a document table other than (docType, docID) are as before the
\* step, and that one row has kept its amount
OnlyStatusOf(before, after, table, docType, docID) ==
    /\ DOMAIN after = DOMAIN before
    /\ \A d \in DOMAIN before :
          /\ after[d].amount = before[d].amount
          /\ after[d].status # before[d].status => (table = docType /\ d = docID)

\* C18: an Unlink changes nothing but the link row it deletes and the status of
\* that link's bill or invoice: the transaction, every account and payout, every
\* other link, every other bill and invoice and every amount stay as they were;
\* a refused Unlink changes nothing.
C18_UnlinkFrame ==
    [][ last'.op = "DeleteTransactionLink" =>
            IF last'.code = 200
            THEN LET linkID == last'.data.link_id
                 IN /\ linkID \in DOMAIN links
                    /\ DOMAIN links' = DOMAIN links \ {linkID}
                    /\ \A l \in DOMAIN links' : links'[l] = links[l]
                    /\ UNCHANGED <<accounts, contacts, transactions, payouts, seq>>
                    /\ OnlyStatusOf(bills, bills', "bill",
                                    links[linkID].document_type, links[linkID].document_id)
                    /\ OnlyStatusOf(invoices, invoices', "invoice",
                                    links[linkID].document_type, links[linkID].document_id)
            ELSE UNCHANGED store
      ]_vars

\* a link of bill 1 has been removed, and changed the bill's status, while another
\* link, invoice 1 with a hand-set status and payout 1 are stored
C18_Witness ==
    /\ last.op = "DeleteTransactionLink" /\ last.code = 200
    /\ 1 \in DOMAIN bills /\ bills[1].status = "draft"
    /\ DocAllocated(links, "invoice", 1) > 0
    /\ 1 \in DOMAIN invoices /\ invoices[1].status \in ManualStatuses
    /\ 1 \in DOMAIN payouts

\* the requests that carry a body to validate
ValidatedOps ==
    {"CreateAccount", "UpdateAccount", "CreateContact", "UpdateContact",
     "CreateTransaction", "UpdateTransaction", "CreateBill", "UpdateBill",
     "CreateInvoice", "UpdateInvoice", "CreatePayout", "UpdatePayout",
     "CreateTransactionLink"}

\* C19: a Create, Update or Link request answered InvalidInput has written nothing:
\* the stored accounts, contacts, bills, invoices, payouts, transactions and links
\* are the same before and after it.
C19_InvalidInputWritesNothing ==
    [][ (last'.op \in ValidatedOps /\ Kind(last') = "InvalidInput") =>
            UNCHANGED <<accounts, contacts, bills, invoices, payouts, transactions, links>>
      ]_vars

\* an Update of the stored bill 1 has been refused for its body while a link of
\* the bill is stored
C19_Witness ==
    /\ last.op = "UpdateBill" /\ last.id = 1 /\ Kind(last) = "InvalidInput"
    /\ 1 \in DOMAIN bills
    /\ DocAllocated(links, "bill", 1) > 0

Entities == {"Account", "Contact", "Bill", "Invoice", "Payout", "Transaction"}

EntityTable(e) ==
    CASE e = "Account" -> accounts [] e = "Contact" -> contacts [] e = "Bill" -> bills
      [] e = "Invoice" -> invoices [] e = "Payout" -> payouts [] e = "Transaction" -> transactions

EntityTableAfter(e) ==
    CASE e = "Account" -> accounts' [] e = "Contact" -> contacts' [] e = "Bill" -> bills'
      [] e = "Invoice" -> invoices' [] e = "Payout" -> payouts' [] e = "Transaction" -> transactions'

\* the step has taken row id, and no other row, out of the table of entity e
RemovedExactly(e, id) ==
    /\ DOMAIN EntityTableAfter(e) = DOMAIN EntityTable(e) \ {id}
    /\ \A r \in DOMAIN EntityTableAfter(e) : EntityTableAfter(e)[r] = EntityTable(e)[r]

ReferencedByTransaction(e, id) ==
    /\ e = "Account" /\ schema = "sqlite"
    /\ \E t \in DOMAIN transactions :
          transactions[t].account_id = id \/ transactions[t].transfer_account_id = id

C21_GetAfterCreate ==
    [][ /\ \A input \in FreshBillInputs :
             (CreateBill(input) /\ last'.code = 201) =>
                 getBillByID(bills', links', last'.data.id) =
                     [id |-> last'.data.id, contact_id |-> input.contact_id,
                      amount |-> input.amount, status |-> DefaultStatus(input.status),
                      allocated |-> 0, unallocated |-> input.amount]
        /\ \A input \in FreshInvoiceInputs :
             (CreateInvoice(input) /\ last'.code = 201) =>
                 getInvoiceByID(invoices', links', last'.data.id) =
                     [id |-> last'.data.id, contact_id |-> input.contact_id,
                      amount |-> input.amount, status |-> DefaultStatus(input.status),
                      allocated |-> 0, unallocated |-> input.amount]
        /\ \A input \in FreshPayoutInputs :
             (CreatePayout(input) /\ last'.code = 201) =>
                 getPayoutByID(payouts', links', last'.data.id) =
                     [id |-> last'.data.id, outlet_name |-> input.outlet_name,
                      platform |-> input.platform,
                      final_payout_amt |-> input.final_payout_amt,
                      allocated |-> 0, unallocated |-> input.final_payout_amt]
        /\ \A input \in FreshTransactionInputs :
             (CreateTransaction(input) /\ last'.code = 201 /\ input.type # "transfer") =>
                 scanTransaction(transactions', links', last'.data.id) =
                     [id |-> last'.data.id, account_id |-> input.account_id,
                      type |-> input.type, amount |-> input.amount,
                      reference |-> input.reference,
                      transfer_account_id |-> input.transfer_account_id,
                      allocated |-> 0, unallocated |-> input.amount]
      ]_vars

\* a second bill has just been created while links to the first bill are stored,
\* and a payout and an invoice have been created
C21_Witness ==
    /\ last.op = "CreateBill" /\ last.code = 201 /\ last.data.id = 2
    /\ bills[2].amount = MaxAmount
    /\ \E l \in DOMAIN links : links[l].document_type = "bill"
    /\ DOMAIN payouts # {} /\ DOMAIN invoices # {} /\ DOMAIN transactions # {}

\* C22: a Create or an Update of a payout whose platform is swiggy or zomato in any
\* letter case is accepted, and every stored payout has its platform in lowercase
C22_PayoutPlatformLowercase ==
    /\ \A p \in DOMAIN payouts : payouts[p].platform \in {"swiggy", "zomato"}
    /\ (last.op \in {"CreatePayout", "UpdatePayout"}) => last.code \in {200, 201, 404}

\* ---------------------------------------------------------------------------
\* Properties of the references between tables
\* ---------------------------------------------------------------------------

\* C23: DeleteAccount never removes an account that is the account_id or the
\* transfer_account_id of a stored transaction, so a stored transaction whose
\* account was stored before the call still refers to a stored account after it
C23_ReferencedAccountNotDeleted ==
    [][ (last'.op = "DeleteAccount") =>
            \A t \in DOMAIN transactions' :
                /\ transactions'[t].account_id \in DOMAIN accounts
                       => transactions'[t].account_id \in DOMAIN accounts'
                /\ transactions'[t].transfer_account_id \in DOMAIN accounts
                       => transactions'[t].transfer_account_id \in DOMAIN accounts'
      ]_vars

\* ---------------------------------------------------------------------------
\* Properties of a link whose reconciliation fails
\* ---------------------------------------------------------------------------

\* C24: when the read or the status write of Status Reconciliation fails after Link
\* has inserted the link row, Link still answers success with the persisted link,
\* and the link row stays in the store
C24_LinkSurvivesFailedReconciliation ==
    \A p \in Procs :
        (proc[p].pc \in {"respond", "done"} /\ proc[p].failed) =>
            /\ proc[p].id \in DOMAIN links
            /\ links[proc[p].id] = LinkRow(proc[p].txnID, proc[p].input)
            /\ proc[p].pc = "done" => (proc[p].code = 201 /\ proc[p].msg = "")

\* both Links have answered 201 after their reconciliation failed; the bill still
\* carries the status it had before and both link rows are stored
C24_Witness ==
    /\ \A p \in Procs : proc[p].pc = "done" /\ proc[p].failed /\ proc[p].code = 201
    /\ bills[1].status = "draft"
    /\ Cardinality(DOMAIN links) = 2

\* ---------------------------------------------------------------------------
\* Properties of the returned entities
\* ---------------------------------------------------------------------------
GetOf(op) ==
    CASE op \in {"CreateAccount", "UpdateAccount"} -> "GetAccount"
      [] op \in {"CreateContact", "UpdateContact"} -> "GetContact"
      [] op \in {"CreateBill", "UpdateBill"} -> "GetBill"
      [] op \in {"CreateInvoice", "UpdateInvoice"} -> "GetInvoice"
      [] op \in {"CreatePayout", "UpdatePayout"} -> "GetPayout"
      [] op \in {"CreateTransaction", "UpdateTransaction"} -> "GetTransaction"
      [] OTHER -> "none"

\* the step is a successful Get of the entity that the exchange before it returned
\* from a successful Create or Update of one of the entities
GetFollows(entities) ==
    /\ GetOf(last.op) \in entities
    /\ last.code \in {200, 201}
    /\ last'.op = GetOf(last.op)
    /\ last'.code = 200
    /\ last'.id = last.data.id

\* C25: the entity that Create or Update of an account, contact, bill, invoice,
\* payout or transaction returns equals what Get by the same id returns right
\* afterwards, computed fields included
C25_ReturnedEntityIsGet ==
    [][ GetFollows({"GetAccount", "GetContact", "GetBill", "GetInvoice", "GetPayout",
                    "GetTransaction"})
            => last'.data = last.data ]_vars

\* ---------------------------------------------------------------------------
\* Properties of concurrent Link and Unlink calls
\* ---------------------------------------------------------------------------

\* both calls are Unlink calls for the stored link 1 of transaction 1, and both
\* have answered
BothUnlinked ==
    \A p \in Procs :
        /\ proc[p].pc = "done"
        /\ proc[p].op = "DeleteTransactionLink"
        /\ proc[p].txnID = 1 /\ proc[p].id = 1

\* C26: of two concurrent Unlink calls for the same existing link and the same
\* transaction, exactly one answers success and the other NotFound(link), and the
\* link is gone
C26_ConcurrentUnlinkOnce ==
    BothUnlinked =>
        /\ 1 \notin DOMAIN links
        /\ \E p \in Procs :
              /\ proc[p].code = 200 /\ proc[p].msg = "deleted"
              /\ \A q \in Procs \ {p} :
                    proc[q].code = 404 /\ proc[q].msg = "link not found"

\* both Unlink calls had read the link before either deleted it
C26_Witness ==
    /\ BothUnlinked
    /\ \A p \in Procs : proc[p].input.document_type = "bill"
    /\ bills[1].status = "draft"

\* ---------------------------------------------------------------------------
\* Properties of a transfer's effect on balances and on other rows
\* ---------------------------------------------------------------------------
Balance(A, T, id) == getAccountByID(A, T, id).balance

RECURSIVE SumBalances(_, _, _)
SumBalances(A, T, ids) ==
    IF ids = {} THEN 0
    ELSE LET i == CHOOSE x \in ids : TRUE
         IN Balance(A, T, i) + SumBalances(A, T, ids \ {i})

\* C27: creating a transfer of amount X from a stored account A to a stored account
\* B lowers A's balance by X and raises B's by X, and the sum of the balances of all
\* accounts is unchanged; the balance is opening_balance plus the account's income
\* rows minus its expense rows
C27_TransferMovesBalance ==
    [][ \A input \in TransferInputs :
          ( /\ CreateTransaction(input)
            /\ last'.code = 201
            /\ {input.account_id, input.transfer_account_id} \subseteq DOMAIN accounts ) =>
              /\ Balance(accounts', transactions', input.account_id)
                    = Balance(accounts, transactions, input.account_id) - input.amount
              /\ Balance(accounts', transactions', input.transfer_account_id)
                    = Balance(accounts, transactions, input.transfer_account_id) + input.amount
              /\ SumBalances(accounts', transactions', DOMAIN accounts')
                    = SumBalances(accounts, transactions, DOMAIN accounts)
      ]_vars

\* a transfer of MaxAmount from account 1 to account 2 has just been created
C27_Witness ==
    /\ last.op = "CreateTransaction" /\ last.code = 201
    /\ last.data.transfer_account_id = 2 /\ last.data.amount = MaxAmount
    /\ DOMAIN accounts = {1, 2}
    /\ Balance(accounts, transactions, 1) = 0 - MaxAmount
    /\ Balance(accounts, transactions, 2) = MaxAmount

\* C28: creating a transfer changes no transaction row other than the two rows it
\* inserts: every transaction stored before the call is stored after it with the
\* same reference, amount and other fields, whatever reference it carries
C28_TransferFrame ==
    [][ \A input \in TransferInputs :
          (CreateTransaction(input) /\ last'.code = 201) =>
              \A t \in DOMAIN transactions :
                  t \in DOMAIN transactions' /\ transactions'[t] = transactions[t]
      ]_vars

\* C29: in every reachable state every stored link refers to a stored transaction
\* and to a stored document of its document_type
C29_LinksReferToStoredRows ==
    \A l \in DOMAIN links :
        /\ links[l].transaction_id \in DOMAIN transactions
        /\ links[l].document_id \in DOMAIN DocTable(links[l].document_type)

\* C30: once concurrent Link and Unlink calls against the same bill have all
\* answered, with the reads and writes of their reconciliation interleaved, the
\* bill's stored status is the reconciliation function of its amount and of the
\* total of its stored links
C30_StatusAfterConcurrentCalls ==
    (\A p \in Procs : proc[p].pc = "done") =>
        \A b \in DOMAIN bills :
            bills[b].status =
                NewStatus(bills[b].amount, DocAllocated(links, "bill", b), "paid")

====
